---- MODULE Spec2Model ----
(***************************************************************************)
(* DigiByte Quantum Shield Network (DQSN), Shield Contract v3.             *)
(*                                                                         *)
(* A model of DQSNV3.evaluate (dqsnetwork/v3.py) and of the request        *)
(* validator DQSNV3Request.from_dict (dqsnetwork/contracts/v3_types.py).   *)
(*                                                                         *)
(* Python values are tagged records:                                       *)
(*   [t |-> "none"]                 None                                   *)
(*   [t |-> "bool", b |-> TRUE]     True / False                           *)
(*   [t |-> "int",  n |-> 3]        an int                                 *)
(*   [t |-> "float", h |-> 50]      a finite float, in hundredths (0.5)    *)
(*   [t |-> "nonfinite", k |-> "nan"]   float nan / inf / -inf             *)
(*   [t |-> "str",  s |-> "dqsn"]   a str                                  *)
(*   [t |-> "list", l |-> <<..>>]   a list                                 *)
(*   [t |-> "dict", d |-> f]        a dict with str keys (DOMAIN f)        *)
(*   [t |-> "set"]                  a value json.dumps cannot serialize    *)
(*   [t |-> "blob", n |-> 600000]   the str "X" * n, under a key whose     *)
(*                                  value the code only serializes         *)
(*                                                                         *)
(* Every int of the model is within the range of a float, so float(x)      *)
(* never raises OverflowError; a dict keeps no order of insertion, its     *)
(* keys are iterated in code-point order.                                  *)
(***************************************************************************)
EXTENDS Integers, Sequences, FiniteSets, TLC

VARIABLES
    request,    \* the argument of the latest evaluate call
    response,   \* what that call did: a returned envelope or a raised exception
    argument,   \* the caller's request object as the latest call left it
    earlier,    \* an earlier call of the same instance, kept for comparison
    now         \* the wall clock of the host (never read by DQSNV3)

vars == <<request, response, argument, earlier, now>>

----------------------------------------------------------------------------
(* Python values *)

PyNone == [t |-> "none"]
PyBool(b) == [t |-> "bool", b |-> b]
PyInt(n) == [t |-> "int", n |-> n]
PyFloat(h) == [t |-> "float", h |-> h]
PyNaN == [t |-> "nonfinite", k |-> "nan"]
PyInf == [t |-> "nonfinite", k |-> "inf"]
PyStr(s) == [t |-> "str", s |-> s]
PyList(l) == [t |-> "list", l |-> l]
PyDict(d) == [t |-> "dict", d |-> d]
PySet == [t |-> "set"]
PyBlob(n) == [t |-> "blob", n |-> n]

\* isinstance(x, dict), isinstance(x, list), isinstance(x, str)
IsDict(x) == x.t = "dict"
IsList(x) == x.t = "list"
IsStr(x) == x.t = "str"
\* isinstance(x, bool)
IsBool(x) == x.t = "bool"
\* isinstance(x, int): bool is a subclass of int
IsInt(x) == x.t \in {"int", "bool"}
\* isinstance(x, (int, float))
IsIntOrFloat(x) == x.t \in {"int", "bool", "float", "nonfinite"}

\* k in d
HasKey(x, k) == k \in DOMAIN x.d
\* d.get(k, default)
Get(x, k, default) == IF k \in DOMAIN x.d THEN x.d[k] ELSE default

\* float(x) of a finite number, in hundredths
ToFloat(x) ==
    CASE x.t = "int" -> x.n * 100
      [] x.t = "bool" -> IF x.b THEN 100 ELSE 0
      [] OTHER -> x.h

\* math.isfinite(float(x)) for a number x
IsFinite(x) == x.t # "nonfinite"

----------------------------------------------------------------------------
(* Strings: str.strip, str.upper and the code-point order, on the strings   *)
(* of the model.                                                            *)

\* s.strip()
Strip(s) ==
    CASE s = " dqsn " -> "dqsn"
      [] s = " rq1 " -> "rq1"
      [] s = " warn " -> "warn"
      [] s = " WARN " -> "WARN"
      [] s = " A " -> "A"
      [] s = " h1" -> "h1"
      [] s = "  " -> ""
      [] OTHER -> s

\* s.upper()
Upper(s) ==
    CASE s = " warn " -> " WARN "
      [] s = "warn" -> "WARN"
      [] s = "block" -> "BLOCK"
      [] s = "critical" -> "CRITICAL"
      [] s = "maybe" -> "MAYBE"
      [] OTHER -> s

\* The position of s in the code-point order of Python's str comparison.
CodePointRank(s) ==
    CASE s = "" -> 0
      [] s = " h1" -> 1
      [] s = "A" -> 2
      [] s = "B" -> 3
      [] s = "C" -> 4
      [] s = "DQSN_OK_ALLOW" -> 5
      [] s = "adn" -> 6
      [] s = "h1" -> 7
      [] s = "h2" -> 8
      [] s = "h3" -> 9
      [] s = "sentinel" -> 10
      [] OTHER -> 11

\* a < b on str
StrLess(a, b) == CodePointRank(a) < CodePointRank(b)

----------------------------------------------------------------------------
(* Reason codes: the members of the enum ReasonCode.  A member the enum     *)
(* does not define cannot be read: the attribute access raises.            *)

ReasonCodeMembers ==
    { "DQSN_OK_ALLOW", "DQSN_ESCALATE_WARN", "DQSN_DENY_BLOCK",
      "DQSN_ERROR_SCHEMA_VERSION", "DQSN_ERROR_INVALID_REQUEST",
      "DQSN_ERROR_UNKNOWN_TOP_LEVEL_KEY", "DQSN_ERROR_BAD_NUMBER",
      "DQSN_ERROR_PAYLOAD_TOO_LARGE", "DQSN_ERROR_SIGNAL_TOO_MANY",
      "DQSN_ERROR_SIGNAL_INVALID", "DQSN_ERROR_UNKNOWN_SIGNAL_KEY" }

\* An exception in flight.
Raise(exc, msg) == [ok |-> FALSE, exc |-> exc, msg |-> msg]

\* raise ValueError(ReasonCode.<name>.value)
RaiseReason(name) ==
    IF name \in ReasonCodeMembers
    THEN Raise("ValueError", name)
    ELSE Raise("AttributeError", name)

----------------------------------------------------------------------------
(* Canonical JSON: json.dumps(obj, sort_keys=True, separators=(",", ":"),   *)
(* ensure_ascii=False), of which the model keeps the length in bytes.      *)

\* The strings that stand for a long text carry their length here.
StrLen(s) == Len(s)

\* len(str(n)) for an int n
RECURSIVE Digits(_)
Digits(n) ==
    IF n < 0 THEN 1 + Digits(0 - n)
    ELSE IF n < 10 THEN 1 ELSE 1 + Digits(n \div 10)

\* len(repr(x)) for a finite float of h hundredths
FloatDigits(h) ==
    LET a == IF h < 0 THEN 0 - h ELSE h
        sign == IF h < 0 THEN 1 ELSE 0
    IN sign + Digits(a \div 100) + (IF a % 10 = 0 THEN 2 ELSE 3)

\* The keys that the dicts of the model are built with, in code-point order.
KeyOrder ==
    << "component", "constraints", "context_hash", "contract_version", "decision",
       "evidence", "extra", "extra_key", "fail_closed", "k", "max_latency_ms", "meta",
       "reason_codes", "request_id", "risk", "score", "signals", "tier",
       "x", "y", "z" >>

\* The keys of a dict as a sequence (the order of iteration).
KeySeq(keys) == SelectSeq(KeyOrder, LAMBDA k : k \in keys)

\* json.dumps raises TypeError on a value it cannot serialize
RECURSIVE Serializable(_)
Serializable(x) ==
    CASE x.t = "set" -> FALSE
      [] x.t = "list" -> \A i \in 1..Len(x.l) : Serializable(x.l[i])
      [] x.t = "dict" -> \A k \in DOMAIN x.d : Serializable(x.d[k])
      [] OTHER -> TRUE

\* F(lo) + ... + F(hi), by halves
RECURSIVE SumRange(_, _, _)
SumRange(F(_), lo, hi) ==
    IF lo > hi THEN 0
    ELSE IF lo = hi THEN F(lo)
    ELSE LET mid == (lo + hi) \div 2
         IN SumRange(F, lo, mid) + SumRange(F, mid + 1, hi)

\* len(json.dumps(x, sort_keys=True, separators=(",", ":"), ensure_ascii=False)
\*         .encode("utf-8")) for a serializable x
RECURSIVE JsonSize(_)
JsonSize(x) ==
    CASE x.t = "none" -> 4
      [] x.t = "bool" -> IF x.b THEN 4 ELSE 5
      [] x.t = "int" -> Digits(x.n)
      [] x.t = "float" -> FloatDigits(x.h)
      [] x.t = "nonfinite" -> IF x.k = "nan" THEN 3 ELSE 8
      [] x.t = "str" -> StrLen(x.s) + 2
      [] x.t = "blob" -> x.n + 2
      [] x.t = "list" ->
            2 + SumRange(LAMBDA i : JsonSize(x.l[i]), 1, Len(x.l))
              + (IF Len(x.l) > 1 THEN Len(x.l) - 1 ELSE 0)
      [] x.t = "dict" ->
            LET ks == KeySeq(DOMAIN x.d)
            IN 2 + SumRange(LAMBDA i : StrLen(ks[i]) + 3 + JsonSize(x.d[ks[i]]), 1, Len(ks))
                 + (IF Len(ks) > 1 THEN Len(ks) - 1 ELSE 0)
      [] OTHER -> 0

----------------------------------------------------------------------------
(* contracts/v3_types.py *)

TOP_LEVEL_KEYS == {"contract_version", "component", "request_id", "signals", "constraints"}

MAX_REQUEST_BYTES == 500000
MAX_REQUEST_NODES == 50000
REQUEST_MAX_SIGNALS == 256

SIGNAL_REQUIRED_KEYS ==
    { "contract_version", "component", "request_id", "context_hash", "decision",
      "risk", "reason_codes", "evidence", "meta" }

ALLOWED_DECISIONS == {"ALLOW", "WARN", "BLOCK", "ERROR"}
ALLOWED_RISK_TIERS == {"LOW", "MEDIUM", "HIGH", "CRITICAL"}

MAX_REASON_CODES == 64
MAX_REASON_CODE_LEN == 96

\* A test of finiteness that lets every number through.
is_finite_number_always(x) == TRUE

\* _is_finite_number(x)
is_finite_number(x) ==
    IF IsBool(x) THEN TRUE
    ELSE IF IsIntOrFloat(x) THEN IsFinite(x)
    ELSE TRUE

\* The nodes of obj that the loop of _walk_check_finite pops when nothing
\* stops it: obj, and under a dict every key and every value, under a list
\* every item.
RECURSIVE NodeCount(_)
NodeCount(x) ==
    IF IsDict(x)
    THEN LET ks == KeySeq(DOMAIN x.d)
         IN 1 + SumRange(LAMBDA i : 1 + NodeCount(x.d[ks[i]]), 1, Len(ks))
    ELSE IF IsList(x)
    THEN 1 + SumRange(LAMBDA i : NodeCount(x.l[i]), 1, Len(x.l))
    ELSE 1

\* The number of the pop at which the loop of _walk_check_finite meets a
\* NaN or an infinity, counted from the pop of x, or 0 when it meets none.
\* A container is popped before its children, and the child pushed last is
\* popped first, with all that is under it.
RECURSIVE FirstBadPop(_)
FirstBadPop(x) ==
    IF IsDict(x) THEN
        LET ks == KeySeq(DOMAIN x.d)
            bad == { i \in 1..Len(ks) : FirstBadPop(x.d[ks[i]]) # 0 }
            last == CHOOSE i \in bad : \A j \in bad : j <= i
        IN IF \E k \in DOMAIN x.d : ~is_finite_number(x.d[k]) THEN 1
           ELSE IF bad = {} THEN 0
           ELSE 1 + SumRange(LAMBDA i : 1 + NodeCount(x.d[ks[i]]), last + 1, Len(ks))
                  + FirstBadPop(x.d[ks[last]])
    ELSE IF IsList(x) THEN
        LET bad == { i \in 1..Len(x.l) : FirstBadPop(x.l[i]) # 0 }
            last == CHOOSE i \in bad : \A j \in bad : j <= i
        IN IF \E i \in 1..Len(x.l) : ~is_finite_number(x.l[i]) THEN 1
           ELSE IF bad = {} THEN 0
           ELSE 1 + SumRange(LAMBDA i : NodeCount(x.l[i]), last + 1, Len(x.l))
                  + FirstBadPop(x.l[last])
    ELSE IF ~is_finite_number(x) THEN 1
    ELSE 0

\* _walk_check_finite(obj, max_nodes): the value of the reason code it
\* returns, "" for None.  The pop that makes seen exceed max_nodes returns
\* DQSN_ERROR_PAYLOAD_TOO_LARGE before it looks at the node.
types_walk_check_finite(obj, max_nodes) ==
    IF FirstBadPop(obj) # 0 /\ FirstBadPop(obj) <= max_nodes THEN "DQSN_ERROR_BAD_NUMBER"
    ELSE IF NodeCount(obj) > max_nodes THEN "DQSN_ERROR_PAYLOAD_TOO_LARGE"
    ELSE ""

\* A check of a reason code that sets no limit to its length.
ReasonCodeOk_unbounded(r) ==
    /\ IsStr(r)
    /\ Strip(r.s) # ""

\* One pass of the loop "for r in rcodes" of from_dict.
ReasonCodeOk(r) ==
    /\ IsStr(r)
    /\ Strip(r.s) # ""
    /\ ~(Len(r.s) > MAX_REASON_CODE_LEN)

\* One pass of the loop "for s in sigs" of from_dict: TRUE when the pass
\* raises nothing.
SignalStructureOk(s) ==
    /\ IsDict(s)
    /\ SIGNAL_REQUIRED_KEYS \ DOMAIN s.d = {}
    /\ Get(s, "contract_version", PyNone) \in {PyInt(3), PyFloat(300)}
    /\ IsStr(s.d["component"]) /\ Strip(s.d["component"].s) # ""
    /\ IsStr(s.d["request_id"]) /\ Strip(s.d["request_id"].s) # ""
    /\ IsStr(s.d["context_hash"]) /\ Strip(s.d["context_hash"].s) # ""
    /\ IsStr(s.d["decision"])
    /\ Upper(Strip(s.d["decision"].s)) \in ALLOWED_DECISIONS
    /\ IsDict(s.d["risk"])
    /\ LET score == Get(s.d["risk"], "score", PyNone)
           tier == Get(s.d["risk"], "tier", PyNone)
       IN /\ ~IsBool(score)
          /\ IsIntOrFloat(score)
          /\ IsFinite(score)
          /\ ~(ToFloat(score) < 0 \/ ToFloat(score) > 100)
          /\ IsStr(tier)
          /\ Upper(Strip(tier.s)) \in ALLOWED_RISK_TIERS
    /\ IsList(s.d["reason_codes"])
    /\ ~(Len(s.d["reason_codes"].l) > MAX_REASON_CODES)
    /\ \A i \in 1..Len(s.d["reason_codes"].l) : ReasonCodeOk(s.d["reason_codes"].l[i])
    /\ IsDict(s.d["evidence"])
    /\ IsDict(s.d["meta"])

\* int(x) of the constraints: [ok, n]; ok is FALSE when int(x) raises.
IntOf(x) ==
    CASE x.t = "int" -> [ok |-> TRUE, n |-> x.n]
      [] x.t = "bool" -> [ok |-> TRUE, n |-> IF x.b THEN 1 ELSE 0]
      [] x.t = "float" -> [ok |-> TRUE, n |-> IF x.h < 0 THEN 0 - ((0 - x.h) \div 100) ELSE x.h \div 100]
      [] x.t = "str" /\ x.s = "100" -> [ok |-> TRUE, n |-> 100]
      [] OTHER -> [ok |-> FALSE, n |-> 0]

\* A constraints block that does not clamp the latency bound.
ParseConstraints_unclamped(con) ==
    LET max_latency_ms == Get(con, "max_latency_ms", PyInt(2500))
        i == IF IntOf(max_latency_ms).ok THEN IntOf(max_latency_ms).n ELSE 2500
    IN [fail_closed |-> TRUE, max_latency_ms |-> i]

\* The constraints block of from_dict, for a dict con.
ParseConstraints(con) ==
    LET max_latency_ms == Get(con, "max_latency_ms", PyInt(2500))
        i == IF IntOf(max_latency_ms).ok THEN IntOf(max_latency_ms).n ELSE 2500
        lo == IF i < 0 THEN 0 ELSE i
        hi == IF lo > 60000 THEN 60000 ELSE lo
    IN [fail_closed |-> TRUE, max_latency_ms |-> hi]

\* DQSNV3Request.from_dict(obj): [ok |-> TRUE, req |-> the request] or the
\* exception it raises.
from_dict(obj) ==
    IF ~IsDict(obj) THEN RaiseReason("DQSN_ERROR_INVALID_REQUEST")
    ELSE IF DOMAIN obj.d \ TOP_LEVEL_KEYS # {}
    THEN RaiseReason("DQSN_ERROR_UNKNOWN_TOP_LEVEL_KEY")
    ELSE
      LET cv == Get(obj, "contract_version", PyNone)
          comp == Get(obj, "component", PyNone)
          rid == Get(obj, "request_id", PyNone)
          sigs == Get(obj, "signals", PyNone)
          con0 == Get(obj, "constraints", PyDict(<<>>))
          con == IF con0 = PyNone THEN PyDict(<<>>) ELSE con0
          rc == types_walk_check_finite(obj, MAX_REQUEST_NODES)
      IN IF ~IsInt(cv) THEN RaiseReason("DQSN_ERROR_SCHEMA_VERSION")
         ELSE IF ~IsStr(comp) \/ Strip(comp.s) = ""
         THEN RaiseReason("DQSN_ERROR_INVALID_REQUEST")
         ELSE IF ~IsStr(rid) \/ Strip(rid.s) = ""
         THEN RaiseReason("DQSN_ERROR_INVALID_REQUEST")
         ELSE IF sigs = PyNone \/ ~IsList(sigs)
         THEN RaiseReason("DQSN_ERROR_SIGNALS_REQUIRED")
         ELSE IF Len(sigs.l) > REQUEST_MAX_SIGNALS
         THEN RaiseReason("DQSN_ERROR_SIGNAL_TOO_MANY")
         ELSE IF ~Serializable(obj)
         THEN RaiseReason("DQSN_ERROR_INVALID_REQUEST")
         ELSE IF JsonSize(obj) > MAX_REQUEST_BYTES
         THEN RaiseReason("DQSN_ERROR_PAYLOAD_TOO_LARGE")
         ELSE IF rc # "" THEN Raise("ValueError", rc)
         ELSE IF \E i \in 1..Len(sigs.l) : ~SignalStructureOk(sigs.l[i])
         THEN RaiseReason("DQSN_ERROR_SIGNAL_INVALID")
         ELSE IF ~IsDict(con) THEN RaiseReason("DQSN_ERROR_INVALID_REQUEST")
         ELSE [ ok |-> TRUE,
                req |-> [ contract_version |-> cv,
                          component |-> Strip(comp.s),
                          request_id |-> Strip(rid.s),
                          signals |-> sigs.l,
                          constraints |-> ParseConstraints(con) ] ]

----------------------------------------------------------------------------
(* contracts/v3_hash.py *)

\* canonical_sha256(payload): the digest of the canonical JSON of payload.
\* The canonical form sorts the keys, so it is one per record; SHA-256 is
\* taken as collision-free, and the digest is written as the record it is the
\* digest of.
canonical_sha256(payload) == [sha256 |-> payload]

----------------------------------------------------------------------------
(* v3.py *)

COMPONENT == "dqsn"
CONTRACT_VERSION == 3
MAX_PAYLOAD_BYTES == 512000
MAX_SIGNALS == 128

ALLOWED_SIGNAL_DECISIONS == {"ALLOW", "WARN", "BLOCK", "ERROR"}
V3_ALLOWED_RISK_TIERS == {"LOW", "MEDIUM", "HIGH", "CRITICAL"}

\* A latency read off the clock of the host.
latency_ms_clock == now

\* latency_ms = 0  (deterministic contract envelope)
latency_ms == 0

\* What a call does: it returns a value or it raises.
Return(value) == [kind |-> "return", value |-> value]
Raised(exc) == [kind |-> "raise", exc |-> exc]

\* repr of a finite float of h hundredths
FloatStr(h) ==
    LET a == IF h < 0 THEN 0 - h ELSE h
        whole == (IF h < 0 THEN "-" ELSE "") \o ToString(a \div 100)
    IN IF a % 100 = 0 THEN whole \o ".0"
       ELSE IF a % 10 = 0 THEN whole \o "." \o ToString((a % 100) \div 10)
       ELSE whole \o "." \o ToString((a % 100) \div 10) \o ToString(a % 10)

\* str(x).  The text of a container is not spelled out.
Str(x) ==
    CASE x.t = "str" -> x.s
      [] x.t = "none" -> "None"
      [] x.t = "bool" -> IF x.b THEN "True" ELSE "False"
      [] x.t = "int" -> ToString(x.n)
      [] x.t = "float" -> FloatStr(x.h)
      [] x.t = "nonfinite" -> x.k
      [] x.t = "list" -> "[...]"
      [] x.t = "dict" -> "{...}"
      [] OTHER -> "{...}"

\* len(x): [ok, n]; ok is FALSE when len(x) raises TypeError.
PyLen(x) ==
    CASE x.t = "list" -> [ok |-> TRUE, n |-> Len(x.l)]
      [] x.t = "str" -> [ok |-> TRUE, n |-> StrLen(x.s)]
      [] x.t = "dict" -> [ok |-> TRUE, n |-> Cardinality(DOMAIN x.d)]
      [] x.t = "set" -> [ok |-> TRUE, n |-> 0]
      [] OTHER -> [ok |-> FALSE, n |-> 0]

\* DQSNV3._walk_check_finite(obj)
RECURSIVE v3_walk_check_finite(_)
v3_walk_check_finite(obj) ==
    IF IsDict(obj) THEN \A k \in DOMAIN obj.d : v3_walk_check_finite(obj.d[k])
    ELSE IF IsList(obj) THEN \A i \in 1..Len(obj.l) : v3_walk_check_finite(obj.l[i])
    ELSE IF IsBool(obj) THEN TRUE
    ELSE IF IsIntOrFloat(obj) THEN IsFinite(obj)
    ELSE TRUE

\* DQSNV3._validate_upstream_signal(s): the reason of (False, reason), or ""
\* for (True, "").
validate_upstream_signal(s) ==
    IF ~IsDict(s) THEN "DQSN_ERROR_SIGNAL_INVALID"
    ELSE IF ~v3_walk_check_finite(s) THEN "DQSN_ERROR_BAD_NUMBER"
    ELSE IF \E k \in { "contract_version", "component", "request_id", "context_hash",
                       "decision", "risk", "reason_codes", "meta" } : ~HasKey(s, k)
    THEN "DQSN_ERROR_SIGNAL_INVALID"
    ELSE IF s.d["contract_version"] \notin {PyInt(3), PyFloat(300)}
    THEN "DQSN_ERROR_SIGNAL_INVALID"
    ELSE IF ~IsStr(s.d["component"]) \/ Strip(s.d["component"].s) = ""
    THEN "DQSN_ERROR_SIGNAL_INVALID"
    ELSE IF ~IsStr(s.d["request_id"]) \/ Strip(s.d["request_id"].s) = ""
    THEN "DQSN_ERROR_SIGNAL_INVALID"
    ELSE IF ~IsStr(s.d["context_hash"]) \/ Strip(s.d["context_hash"].s) = ""
    THEN "DQSN_ERROR_SIGNAL_INVALID"
    ELSE IF Strip(Upper(Str(s.d["decision"]))) \notin ALLOWED_SIGNAL_DECISIONS
    THEN "DQSN_ERROR_SIGNAL_INVALID"
    ELSE IF ~IsDict(s.d["risk"]) THEN "DQSN_ERROR_SIGNAL_INVALID"
    ELSE
      LET score == Get(s.d["risk"], "score", PyNone)
          tier == Get(s.d["risk"], "tier", PyNone)
          rcs == s.d["reason_codes"]
          meta == s.d["meta"]
      IN IF ~IsIntOrFloat(score) \/ IsBool(score) THEN "DQSN_ERROR_SIGNAL_INVALID"
         ELSE IF ~IsFinite(score) THEN "DQSN_ERROR_BAD_NUMBER"
         ELSE IF ToFloat(score) < 0 \/ ToFloat(score) > 100
         THEN "DQSN_ERROR_SIGNAL_INVALID"
         ELSE IF ~IsStr(tier) \/ Strip(Upper(tier.s)) \notin V3_ALLOWED_RISK_TIERS
         THEN "DQSN_ERROR_SIGNAL_INVALID"
         ELSE IF ~IsList(rcs) \/ \E i \in 1..Len(rcs.l) : ~IsStr(rcs.l[i])
         THEN "DQSN_ERROR_SIGNAL_INVALID"
         ELSE IF ~IsDict(meta) \/ Get(meta, "fail_closed", PyNone) # PyBool(TRUE)
         THEN "DQSN_ERROR_SIGNAL_INVALID"
         ELSE ""

\* A request id for the error paths that is trimmed like the parsed one.
safe_request_id_trimmed(req) ==
    IF IsDict(req)
    THEN LET rid == Get(req, "request_id", PyStr("unknown"))
         IN IF rid # PyNone THEN Strip(Str(rid)) ELSE "unknown"
    ELSE "unknown"

\* DQSNV3._safe_request_id(request)
safe_request_id(req) ==
    IF IsDict(req)
    THEN LET rid == Get(req, "request_id", PyStr("unknown"))
         IN IF rid # PyNone THEN Str(rid) ELSE "unknown"
    ELSE "unknown"

\* A size that is 0 for what cannot be serialized.
encoded_size_bytes_or_zero(obj) == IF Serializable(obj) THEN JsonSize(obj) ELSE 0

\* DQSNV3._encoded_size_bytes(obj)
encoded_size_bytes(obj) == IF Serializable(obj) THEN JsonSize(obj) ELSE 1000000000

\* A rollup that looks for WARN before it looks for ERROR and BLOCK.
aggregate_decision_warn_first(signals) ==
    LET decisions == [i \in 1..Len(signals) |->
                        Strip(Upper(Str(Get(signals[i], "decision", PyStr("")))))]
    IN IF \E i \in 1..Len(signals) : decisions[i] = "WARN" THEN "ESCALATE"
       ELSE IF \E i \in 1..Len(signals) : decisions[i] \in {"ERROR", "BLOCK"} THEN "BLOCK"
       ELSE "ALLOW"

\* DQSNV3._aggregate_decision(signals)
aggregate_decision(signals) ==
    LET decisions == [i \in 1..Len(signals) |->
                        Strip(Upper(Str(Get(signals[i], "decision", PyStr("")))))]
    IN IF \E i \in 1..Len(signals) : decisions[i] \in {"ERROR", "BLOCK"} THEN "BLOCK"
       ELSE IF \E i \in 1..Len(signals) : decisions[i] = "WARN" THEN "ESCALATE"
       ELSE "ALLOW"

\* An outcome prefix that reports an escalation with the code of a denial.
reason_codes_escalate_as_deny(decision) ==
    LET d == Strip(Upper(decision))
    IN IF d = "ALLOW" THEN <<"DQSN_OK_ALLOW">> ELSE <<"DQSN_DENY_BLOCK">>

\* DQSNV3._reason_codes_from_decision(decision)
reason_codes_from_decision(decision) ==
    LET d == Strip(Upper(decision))
    IN IF d = "ALLOW" THEN <<"DQSN_OK_ALLOW">>
       ELSE IF d = "ESCALATE" THEN <<"DQSN_ESCALATE_WARN">>
       ELSE <<"DQSN_DENY_BLOCK">>

\* sorted(S) for a set of str
SortedStrs(S) ==
    [p \in 1..Cardinality(S) |->
        CHOOSE x \in S : Cardinality({ y \in S : StrLess(y, x) }) = p - 1]

\* A collection of the upstream codes that does not trim them.
collect_upstream_reason_codes_untrimmed(signals) ==
    LET rcs(i) == Get(signals[i], "reason_codes", PyList(<<>>))
        kept(i) == IF IsList(rcs(i))
                   THEN { j \in 1..Len(rcs(i).l) :
                            IsStr(rcs(i).l[j]) /\ Strip(rcs(i).l[j].s) # "" }
                   ELSE {}
        codes == UNION { { rcs(i).l[j].s : j \in kept(i) } : i \in 1..Len(signals) }
    IN SortedStrs(codes)

\* DQSNV3._collect_upstream_reason_codes(signals)
collect_upstream_reason_codes(signals) ==
    LET rcs(i) == Get(signals[i], "reason_codes", PyList(<<>>))
        kept(i) == IF IsList(rcs(i))
                   THEN { j \in 1..Len(rcs(i).l) :
                            IsStr(rcs(i).l[j]) /\ Strip(rcs(i).l[j].s) # "" }
                   ELSE {}
        codes == UNION { { Strip(rcs(i).l[j].s) : j \in kept(i) } : i \in 1..Len(signals) }
    IN SortedStrs(codes)

\* A view of the signals that keeps their evidence.
stable_signals_with_evidence(signals) ==
    [i \in 1..Len(signals) |->
        LET s == signals[i]
            risk == Get(s, "risk", PyDict(<<>>))
            rcs == Get(s, "reason_codes", PyList(<<>>))
        IN [ component |-> Str(Get(s, "component", PyStr(""))),
             request_id |-> Str(Get(s, "request_id", PyStr(""))),
             context_hash |-> Str(Get(s, "context_hash", PyStr(""))),
             decision |-> Strip(Upper(Str(Get(s, "decision", PyStr(""))))),
             risk |-> [ score |-> ToFloat(Get(risk, "score", PyFloat(0))),
                        tier |-> Strip(Upper(Str(Get(risk, "tier", PyStr(""))))) ],
             reason_codes |-> [j \in 1..Len(rcs.l) |-> Str(rcs.l[j])],
             evidence |-> Get(s, "evidence", PyDict(<<>>)) ]]

\* DQSNV3._stable_signals(signals)
stable_signals(signals) ==
    [i \in 1..Len(signals) |->
        LET s == signals[i]
            risk == Get(s, "risk", PyDict(<<>>))
            rcs == Get(s, "reason_codes", PyList(<<>>))
        IN [ component |-> Str(Get(s, "component", PyStr(""))),
             request_id |-> Str(Get(s, "request_id", PyStr(""))),
             context_hash |-> Str(Get(s, "context_hash", PyStr(""))),
             decision |-> Strip(Upper(Str(Get(s, "decision", PyStr(""))))),
             risk |-> [ score |-> ToFloat(Get(risk, "score", PyFloat(0))),
                        tier |-> Strip(Upper(Str(Get(risk, "tier", PyStr(""))))) ],
             reason_codes |-> [j \in 1..Len(rcs.l) |-> Str(rcs.l[j])] ]]

\* A risk that rates a BLOCK as CRITICAL.
risk_from_decision_block_critical(decision) ==
    LET d == Strip(Upper(decision))
    IN IF d = "ALLOW" THEN [score |-> 0, tier |-> "LOW"]
       ELSE IF d = "ESCALATE" THEN [score |-> 50, tier |-> "MEDIUM"]
       ELSE [score |-> 100, tier |-> "CRITICAL"]

\* DQSNV3._risk_from_decision(decision), the score in hundredths
risk_from_decision(decision) ==
    LET d == Strip(Upper(decision))
    IN IF d = "ALLOW" THEN [score |-> 0, tier |-> "LOW"]
       ELSE IF d = "ESCALATE" THEN [score |-> 50, tier |-> "MEDIUM"]
       ELSE [score |-> 100, tier |-> "HIGH"]

\* An error response with the risk of a BLOCK decision.
error_with_block_risk(request_id, reason_code, latency, input_signals, unique_signals) ==
    [ contract_version |-> CONTRACT_VERSION,
      component |-> COMPONENT,
      request_id |-> request_id,
      context_hash |-> canonical_sha256(
          [ component |-> COMPONENT,
            contract_version |-> CONTRACT_VERSION,
            request_id |-> request_id,
            reason_code |-> reason_code ]),
      decision |-> "ERROR",
      risk |-> [score |-> 100, tier |-> "HIGH"],
      reason_codes |-> <<reason_code>>,
      evidence |-> [ dedup |-> [ input_signals |-> input_signals,
                                 unique_signals |-> unique_signals ],
                     details |-> [error |-> reason_code] ],
      meta |-> [latency_ms |-> latency, fail_closed |-> TRUE] ]

\* DQSNV3._error(request_id, reason_code, latency_ms, input_signals, unique_signals)
error(request_id, reason_code, latency, input_signals, unique_signals) ==
    [ contract_version |-> CONTRACT_VERSION,
      component |-> COMPONENT,
      request_id |-> request_id,
      context_hash |-> canonical_sha256(
          [ component |-> COMPONENT,
            contract_version |-> CONTRACT_VERSION,
            request_id |-> request_id,
            reason_code |-> reason_code ]),
      decision |-> "ERROR",
      risk |-> [score |-> 100, tier |-> "CRITICAL"],
      reason_codes |-> <<reason_code>>,
      evidence |-> [ dedup |-> [ input_signals |-> input_signals,
                                 unique_signals |-> unique_signals ],
                     details |-> [error |-> reason_code] ],
      meta |-> [latency_ms |-> latency, fail_closed |-> TRUE] ]

\* The i-th element of the set of numbers S, in ascending order
Nth(S, i) == CHOOSE x \in S : Cardinality({ y \in S : y <= x }) = i

\* A deduplication in which the last signal of a context_hash is the one kept.
dedup_by_hash_last_wins(validated) ==
    LET ch(i) == Str(Get(validated[i], "context_hash", PyStr("")))
        last == { i \in 1..Len(validated) :
                    ch(i) # "" /\ \A j \in (i + 1)..Len(validated) : ch(j) # ch(i) }
    IN [k \in 1..Cardinality(last) |-> validated[Nth(last, k)]]

\* The loop "for s in validated" of evaluate, and list(unique_by_hash.values()):
\* a signal enters unique_by_hash when its context_hash is not empty and no
\* signal before it carried that context_hash; the values come out in the
\* order of insertion.
dedup_by_hash(validated) ==
    LET ch(i) == Str(Get(validated[i], "context_hash", PyStr("")))
        first == { i \in 1..Len(validated) :
                     ch(i) # "" /\ \A j \in 1..(i - 1) : ch(j) # ch(i) }
    IN [k \in 1..Cardinality(first) |-> validated[Nth(first, k)]]

\* A key that puts the context_hash before the component.
sort_key_hash_first(x) == <<Str(Get(x, "context_hash", PyStr(""))), Str(Get(x, "component", PyStr("")))>>

\* A key that is the component alone.
sort_key_component_only(x) == <<Str(Get(x, "component", PyStr(""))), "">>

\* The key of unique_signals.sort: (str(component), str(context_hash))
sort_key(x) == <<Str(Get(x, "component", PyStr(""))), Str(Get(x, "context_hash", PyStr("")))>>

\* a < b on the tuples of two str
KeyLess(a, b) == StrLess(a[1], b[1]) \/ (a[1] = b[1] /\ StrLess(a[2], b[2]))

\* The kept signals left in the order of their first appearance.
insertion_order(signals) == signals

\* list.sort(key=sort_key), a stable sort: an element goes after those of a
\* smaller key and after the earlier ones of an equal key.
stable_sort(signals) ==
    LET place(i) ==
            Cardinality({ j \in 1..Len(signals) :
                            \/ KeyLess(sort_key(signals[j]), sort_key(signals[i]))
                            \/ (j < i /\ ~KeyLess(sort_key(signals[i]), sort_key(signals[j]))) }) + 1
    IN [p \in 1..Len(signals) |-> signals[CHOOSE i \in 1..Len(signals) : place(i) = p]]

\* A loop that refuses no signal.
first_invalid_none(signals) == ""

\* The loop "for s in req.signals" of evaluate: the reason of the first signal
\* that _validate_upstream_signal refuses, or "" when every signal is validated.
first_invalid(signals) ==
    LET bad == { i \in 1..Len(signals) : validate_upstream_signal(signals[i]) # "" }
    IN IF bad = {} THEN ""
       ELSE validate_upstream_signal(signals[Nth(bad, 1)])

\* An aggregation that reports the latency bound of the constraints.
aggregate_echoing_constraints(req) ==
    LET validated == req.signals
        input_signals == Len(validated)
        unique == dedup_by_hash(validated)
        unique_count == Len(unique)
        unique_signals == stable_sort(unique)
        decision_out == aggregate_decision(unique_signals)
        reason_codes == reason_codes_from_decision(decision_out)
                        \o collect_upstream_reason_codes(unique_signals)
        v3_context == [ component |-> COMPONENT,
                        contract_version |-> CONTRACT_VERSION,
                        request_id |-> req.request_id,
                        signals |-> stable_signals(unique_signals),
                        decision |-> decision_out,
                        reason_codes |-> reason_codes ]
    IN [ contract_version |-> CONTRACT_VERSION,
         component |-> COMPONENT,
         request_id |-> req.request_id,
         context_hash |-> canonical_sha256(v3_context),
         decision |-> decision_out,
         risk |-> risk_from_decision(decision_out),
         reason_codes |-> reason_codes,
         evidence |-> [ dedup |-> [ input_signals |-> input_signals,
                                    unique_signals |-> unique_count ],
                        signals |-> stable_signals(unique_signals) ],
         meta |-> [ latency_ms |-> req.constraints.max_latency_ms,
                    fail_closed |-> req.constraints.fail_closed ] ]

\* An aggregation whose hash is taken over the risk, not the reason codes.
aggregate_hashing_risk(req) ==
    LET validated == req.signals
        input_signals == Len(validated)
        unique == dedup_by_hash(validated)
        unique_count == Len(unique)
        unique_signals == stable_sort(unique)
        decision_out == aggregate_decision(unique_signals)
        reason_codes == reason_codes_from_decision(decision_out)
                        \o collect_upstream_reason_codes(unique_signals)
        v3_context == [ component |-> COMPONENT,
                        contract_version |-> CONTRACT_VERSION,
                        request_id |-> req.request_id,
                        signals |-> stable_signals(unique_signals),
                        decision |-> decision_out,
                        risk |-> risk_from_decision(decision_out) ]
    IN [ contract_version |-> CONTRACT_VERSION,
         component |-> COMPONENT,
         request_id |-> req.request_id,
         context_hash |-> canonical_sha256(v3_context),
         decision |-> decision_out,
         risk |-> risk_from_decision(decision_out),
         reason_codes |-> reason_codes,
         evidence |-> [ dedup |-> [ input_signals |-> input_signals,
                                    unique_signals |-> unique_count ],
                        signals |-> stable_signals(unique_signals) ],
         meta |-> [latency_ms |-> latency_ms, fail_closed |-> TRUE] ]

\* The response of evaluate from the dedup on (v3.py lines 112 to 166).
aggregate(req) ==
    LET validated == req.signals
        input_signals == Len(validated)
        unique == dedup_by_hash(validated)
        unique_count == Len(unique)
        unique_signals == stable_sort(unique)
        decision_out == aggregate_decision(unique_signals)
        reason_codes == reason_codes_from_decision(decision_out)
                        \o collect_upstream_reason_codes(unique_signals)
        v3_context == [ component |-> COMPONENT,
                        contract_version |-> CONTRACT_VERSION,
                        request_id |-> req.request_id,
                        signals |-> stable_signals(unique_signals),
                        decision |-> decision_out,
                        reason_codes |-> reason_codes ]
    IN [ contract_version |-> CONTRACT_VERSION,
         component |-> COMPONENT,
         request_id |-> req.request_id,
         context_hash |-> canonical_sha256(v3_context),
         decision |-> decision_out,
         risk |-> risk_from_decision(decision_out),
         reason_codes |-> reason_codes,
         evidence |-> [ dedup |-> [ input_signals |-> input_signals,
                                    unique_signals |-> unique_count ],
                        signals |-> stable_signals(unique_signals) ],
         meta |-> [latency_ms |-> latency_ms, fail_closed |-> TRUE] ]

\* min(self.MAX_SIGNALS, DQSNV3Request.MAX_SIGNALS), the cap of evaluate
signal_cap ==
    IF MAX_SIGNALS < REQUEST_MAX_SIGNALS THEN MAX_SIGNALS ELSE REQUEST_MAX_SIGNALS

\* A gate that lets every component through.
component_mismatch_never(r) == FALSE

\* if req.component != self.COMPONENT
component_mismatch(r) == r.component # COMPONENT

\* A gate that lets every version through.
version_mismatch_never(r) == FALSE

\* if req.contract_version != self.CONTRACT_VERSION
version_mismatch(r) == r.contract_version # PyInt(CONTRACT_VERSION)

\* The except blocks of evaluate: input_signals is len(request.get("signals", []))
\* for a dict, which raises TypeError on a value without a length.
error_after_raise(req, code) ==
    LET n == IF IsDict(req) THEN PyLen(Get(req, "signals", PyList(<<>>)))
             ELSE [ok |-> TRUE, n |-> 0]
    IN IF n.ok
       THEN Return(error(safe_request_id(req), code, latency_ms, n.n, 0))
       ELSE Raised("TypeError")

\* DQSNV3.evaluate(request)
evaluate(req) ==
    IF encoded_size_bytes(req) > MAX_PAYLOAD_BYTES
    THEN Return(error(safe_request_id(req), "DQSN_ERROR_PAYLOAD_TOO_LARGE", latency_ms, 0, 0))
    ELSE
      LET parsed == from_dict(req) IN
      IF ~parsed.ok /\ parsed.exc = "ValueError"
      THEN error_after_raise(req, IF parsed.msg # "" THEN parsed.msg
                                  ELSE "DQSN_ERROR_INVALID_REQUEST")
      ELSE IF ~parsed.ok
      THEN error_after_raise(req, "DQSN_ERROR_INVALID_REQUEST")
      ELSE
        LET r == parsed.req
            n == Len(r.signals)
            cap == signal_cap
        IN IF version_mismatch(r)
           THEN Return(error(r.request_id, "DQSN_ERROR_SCHEMA_VERSION", latency_ms, n, 0))
           ELSE IF component_mismatch(r)
           THEN Return(error(r.request_id, "DQSN_ERROR_INVALID_REQUEST", latency_ms, n, 0))
           ELSE IF n > cap
           THEN Return(error(r.request_id, "DQSN_ERROR_SIGNAL_TOO_MANY", latency_ms, n, 0))
           ELSE IF first_invalid(r.signals) # ""
           THEN Return(error(r.request_id, first_invalid(r.signals), latency_ms, n, 0))
           ELSE Return(aggregate(r))

----------------------------------------------------------------------------
(* The requests of the model *)

MaxSignals == 3
MaxDeviations == 2
MaxPuritySignals == 2
MaxClock == 2

\* A key left out of a dict.
Absent == [t |-> "absent"]

\* The dict of the fields that are not Absent.
DictOf(fields) ==
    PyDict([k \in { k \in DOMAIN fields : fields[k] # Absent } |-> fields[k]])

PyStrs(codes) == PyList([i \in 1..Len(codes) |-> PyStr(codes[i])])

FailClosed == PyDict([fail_closed |-> PyBool(TRUE)])
EmptyDict == PyDict(<<>>)

\* An upstream signal envelope (the helper _sig of the tests).
Sig(comp, rid, ch, dec, score, tier, codes, evidence, meta) ==
    PyDict([ contract_version |-> PyInt(3),
             component |-> PyStr(comp),
             request_id |-> PyStr(rid),
             context_hash |-> PyStr(ch),
             decision |-> PyStr(dec),
             risk |-> PyDict([score |-> score, tier |-> PyStr(tier)]),
             reason_codes |-> codes,
             evidence |-> evidence,
             meta |-> meta ])

\* s with the key k set to v, or removed when v is Absent
With(s, k, v) ==
    DictOf([j \in DOMAIN s.d \cup {k} |-> IF j = k THEN v ELSE s.d[j]])

SigAllow == Sig("sentinel", "s1", "h1", "ALLOW", PyFloat(0), "LOW", PyStrs(<<"C">>), EmptyDict, FailClosed)
SigWarn == Sig("sentinel", "s2", "h1", "WARN", PyFloat(50), "MEDIUM", PyStrs(<<" A ", "B">>), EmptyDict, FailClosed)
SigBlock == Sig("adn", "s3", "h2", "BLOCK", PyInt(1), "HIGH", PyStrs(<<"DQSN_OK_ALLOW", "B">>), EmptyDict, FailClosed)
SigError == Sig("sentinel", "s4", "h2", "ERROR", PyFloat(100), "CRITICAL", PyStrs(<<>>), EmptyDict, FailClosed)
SigLower == Sig("adn", "s5", "h3", " warn ", PyFloat(90), "critical", PyStrs(<<"B", "A">>), EmptyDict, FailClosed)
SigAllowEvidence == With(SigAllow, "evidence", PyDict([k |-> PyStr("v")]))

\* Signals that both validators accept.
GoodSignals == {SigAllow, SigWarn, SigBlock, SigError, SigLower, SigAllowEvidence}

\* Signals with a defect.
BadSignals ==
    { With(SigAllow, "risk", PyDict([score |-> PyNaN, tier |-> PyStr("LOW")])),
      With(SigAllow, "evidence", PyDict([x |-> PyList(<<PyInt(1), PyDict([y |-> PyInf])>>)])),
      With(SigAllow, "meta", PyDict([fail_closed |-> PyBool(TRUE), z |-> PyNaN])),
      With(SigAllow, "reason_codes", PyList(<<PyStr("A"), PyNaN>>)),
      With(SigAllow, "meta", PyDict([fail_closed |-> PyBool(FALSE)])),
      With(SigAllow, "meta", EmptyDict),
      With(SigAllow, "evidence", Absent),
      With(SigAllow, "decision", PyStr("MAYBE")),
      With(SigAllow, "risk", PyDict([score |-> PyFloat(150), tier |-> PyStr("LOW")])),
      With(SigAllow, "risk", PyDict([score |-> PyBool(TRUE), tier |-> PyStr("LOW")])),
      With(SigAllow, "reason_codes", PyStrs(<<"  ">>)),
      PyStr("nope") }

\* Signals that are sound but for a key that no contract names: in the
\* signal, in its risk, in its meta.
UnknownKeySignals ==
    { With(SigAllow, "extra_key", PyInt(123)),
      With(SigAllow, "risk", PyDict([score |-> PyFloat(0), tier |-> PyStr("LOW"), extra |-> PyInt(1)])),
      With(SigAllow, "meta", PyDict([fail_closed |-> PyBool(TRUE), extra |-> PyInt(1)])) }

\* The sequences over S of length at most n
SeqsUpTo(S, n) == UNION { [1..k -> S] : k \in 0..n }

\* A request envelope (the helper _req of the tests).
Envelope(cv, comp, rid, sigs, con, extra) ==
    DictOf([ contract_version |-> cv, component |-> comp, request_id |-> rid,
             signals |-> sigs, constraints |-> con, extra |-> extra ])

ValidEnvelope(sigs) ==
    Envelope(PyInt(3), PyStr("dqsn"), PyStr("rq1"), PyList(sigs), EmptyDict, Absent)

\* The lists of at most n elements of S in which no element comes twice.
DistinctSeqsUpTo(S, n) ==
    { s \in SeqsUpTo(S, n) : \A i, j \in 1..Len(s) : i < j => s[i] # s[j] }

\* Well-formed envelopes around every list of different good signals, and
\* around the lists in which a signal comes back after another one.
GoodRequests ==
    { ValidEnvelope(sigs) : sigs \in DistinctSeqsUpTo(GoodSignals, MaxSignals) }
    \cup { ValidEnvelope(<<s, t, s>>) : s \in GoodSignals, t \in GoodSignals }

\* Well-formed envelopes around a list that holds defective signals.
BadSignalRequests ==
    { ValidEnvelope(sigs) :
        sigs \in UNION { {<<b>>, <<SigWarn, b>>, <<b, SigWarn>>} : b \in BadSignals }
                 \cup (BadSignals \X BadSignals) }

\* Well-formed envelopes around a list that holds a signal with an unknown key.
UnknownKeyRequests ==
    { ValidEnvelope(sigs) :
        sigs \in UNION { {<<u>>, <<SigWarn, u>>, <<u, SigBlock>>} : u \in UnknownKeySignals } }

\* The values tried under each key of the envelope; the first is the sound one.
FieldValues ==
    [ contract_version |-> <<PyInt(3), PyInt(999), PyBool(TRUE), PyFloat(300), PyStr("3"), PyNaN, Absent>>,
      component |-> <<PyStr("dqsn"), PyStr(" dqsn "), PyStr("other"), PyStr("  "), PyInt(5), Absent>>,
      request_id |-> <<PyStr("rq1"), PyStr(" rq1 "), PyStr(""), PyNone, PyNaN, PyInt(7), Absent>>,
      signals |-> <<PyList(<<SigWarn, SigBlock>>), PyNone, PyInt(5), PyStr("nope"), PyNaN,
                    PyList(<<With(SigAllow, "meta", EmptyDict)>>), Absent>>,
      constraints |-> <<EmptyDict, PyNone, PyStr("nope"), PyNaN,
                        PyDict([max_latency_ms |-> PyNaN]),
                        PyDict([max_latency_ms |-> PyInt(100000), fail_closed |-> PyBool(FALSE)]),
                        Absent>>,
      extra |-> <<Absent, PyStr("x"), PyNaN, PySet>> ]

\* The envelope with the keys of D set to the values numbered by c, the
\* other keys to the sound value.
Deviant(D, c) ==
    DictOf([k \in DOMAIN FieldValues |->
              IF k \in D THEN FieldValues[k][c[k]] ELSE FieldValues[k][1]])

\* Envelopes that differ from the sound one under at most n keys.
Deviants(n) ==
    UNION { { Deviant(D, c) :
                c \in { c \in [D -> 2..7] : \A k \in D : c[k] <= Len(FieldValues[k]) } } :
            D \in { D \in SUBSET DOMAIN FieldValues : Cardinality(D) <= n } }

DeviantRequests == Deviants(MaxDeviations)

\* Requests that are no mapping.
NonDictRequests == {PyStr("nope"), PyNone, PyInt(5), PyList(<<>>)}

\* Well-formed envelopes around as many copies of one signal as the caps allow,
\* and one more.
BulkRequests ==
    { ValidEnvelope([i \in 1..n |-> SigAllow]) :
        n \in {MAX_SIGNALS, MAX_SIGNALS + 1, REQUEST_MAX_SIGNALS, REQUEST_MAX_SIGNALS + 1} }

\* R with a str under the unknown key "extra" that brings its canonical JSON
\* to total bytes (the request of test_v3_payload_too_large_fail_closed).
PadTo(R, total) ==
    With(R, "extra", PyBlob(total - JsonSize(With(R, "extra", PyBlob(0)))))

\* A sound request of one signal whose evidence holds a str that brings the
\* canonical JSON of the request to total bytes.
PadEvidenceTo(total) ==
    LET R(n) == ValidEnvelope(<<With(SigAllow, "evidence", PyDict([k |-> PyBlob(n)]))>>)
    IN R(total - JsonSize(R(0)))

\* Requests at and beyond the size limits, and requests that cannot be
\* serialized.
PaddedRequests ==
    { PadTo(R, total) :
        R \in { ValidEnvelope(<<SigAllow>>),
                With(ValidEnvelope(<<SigAllow>>), "signals", PyNone) },
        total \in {MAX_PAYLOAD_BYTES, MAX_PAYLOAD_BYTES + 1} }
    \cup { PadEvidenceTo(total) :
             total \in { MAX_REQUEST_BYTES, MAX_REQUEST_BYTES + 1,
                         MAX_PAYLOAD_BYTES, MAX_PAYLOAD_BYTES + 1 } }
    \cup { PySet,
           With(ValidEnvelope(<<SigAllow>>), "signals", PySet),
           With(With(ValidEnvelope(<<SigAllow>>), "signals", PyNone), "constraints", PySet) }

\* A reason code of MAX_REASON_CODE_LEN characters, and one that is a
\* character longer.
LongestCode == "XXXXXXXXXXXXXXXXXXXXXXXXXXXXXXXXXXXXXXXXXXXXXXXXXXXXXXXXXXXXXXXXXXXXXXXXXXXXXXXXXXXXXXXXXXXXXXXX"
TooLongCode == "XXXXXXXXXXXXXXXXXXXXXXXXXXXXXXXXXXXXXXXXXXXXXXXXXXXXXXXXXXXXXXXXXXXXXXXXXXXXXXXXXXXXXXXXXXXXXXXXX"

\* Signals with one field at odds with a rule of the validator.
FieldDefectSignals ==
    { With(SigAllow, "contract_version", PyInt(999)),
      With(SigAllow, "contract_version", PyBool(TRUE)),
      With(SigAllow, "contract_version", PyStr("3")),
      With(SigAllow, "component", PyStr("  ")),
      With(SigAllow, "component", PyInt(5)),
      With(SigAllow, "request_id", PyStr("")),
      With(SigAllow, "request_id", PyNone),
      With(SigAllow, "context_hash", PyStr("  ")),
      With(SigAllow, "context_hash", PyInt(7)),
      With(SigAllow, "decision", PyInt(5)),
      With(SigAllow, "decision", PyStr("maybe")),
      With(SigAllow, "risk", PyStr("nope")),
      With(SigAllow, "risk", PyDict([tier |-> PyStr("LOW")])),
      With(SigAllow, "risk", PyDict([score |-> PyStr("x"), tier |-> PyStr("LOW")])),
      With(SigAllow, "risk", PyDict([score |-> PyFloat(0 - 1), tier |-> PyStr("LOW")])),
      With(SigAllow, "risk", PyDict([score |-> PyInt(2), tier |-> PyStr("LOW")])),
      With(SigAllow, "risk", PyDict([score |-> PyFloat(0), tier |-> PyStr("maybe")])),
      With(SigAllow, "risk", PyDict([score |-> PyFloat(0), tier |-> PyInt(5)])),
      With(SigAllow, "risk", PyDict([score |-> PyFloat(0)])),
      With(SigAllow, "reason_codes", PyStr("nope")),
      With(SigAllow, "reason_codes", PyList(<<PyInt(5)>>)),
      With(SigAllow, "reason_codes", PyStrs([i \in 1..(MAX_REASON_CODES + 1) |-> "A"])),
      With(SigAllow, "reason_codes", PyStrs(<<"A", TooLongCode>>)),
      With(SigAllow, "evidence", PyList(<<>>)),
      With(SigAllow, "meta", PyNone),
      With(SigAllow, "meta", Absent),
      With(SigAllow, "context_hash", Absent),
      EmptyDict,
      PyList(<<>>) }

\* Signals at the edge of what the rules of the validator allow.
FieldEdgeSignals ==
    { With(SigAllow, "contract_version", PyFloat(300)),
      With(SigAllow, "risk", PyDict([score |-> PyInt(0), tier |-> PyStr("critical")])),
      With(SigAllow, "risk", PyDict([score |-> PyFloat(100), tier |-> PyStr("LOW")])),
      With(SigAllow, "reason_codes", PyStrs([i \in 1..MAX_REASON_CODES |-> "A"])),
      With(SigAllow, "reason_codes", PyStrs(<<"A", LongestCode>>)),
      With(SigAllow, "reason_codes", PyStrs(<<>>)),
      With(SigAllow, "decision", PyStr("block")) }

\* Well-formed envelopes around a list that holds such a signal.
FieldRuleRequests ==
    { ValidEnvelope(sigs) :
        sigs \in UNION { {<<d>>, <<SigWarn, d>>} : d \in FieldDefectSignals \cup FieldEdgeSignals } }

\* Signals whose meta.fail_closed is something else than True.
FailOpenSignals ==
    { With(SigAllow, "meta", PyDict([fail_closed |-> PyInt(1)])),
      With(SigAllow, "meta", PyDict([fail_closed |-> PyStr("true")])),
      With(SigAllow, "meta", PyDict([fail_closed |-> PyNone])) }

\* Well-formed envelopes around a list that holds such a signal.
FailOpenRequests ==
    { ValidEnvelope(sigs) :
        sigs \in UNION { {<<f>>, <<SigWarn, f>>, <<f, SigBlock>>} : f \in FailOpenSignals } }

\* The values of constraints.max_latency_ms that the requests try.
LatencyValues ==
    { PyInt(0), PyInt(0 - 5), PyInt(60000), PyInt(60001), PyInt(1234),
      PyFloat(370), PyFloat(0 - 370), PyFloat(6000050), PyBool(TRUE),
      PyStr("100"), PyStr("abc"), PyNone, PyList(<<>>) }

\* Sound requests with such a value, with and without a fail_closed of the
\* caller's, and sound requests with constraints that are no mapping.
ConstraintRequests ==
    { With(ValidEnvelope(<<SigWarn>>), "constraints", PyDict([max_latency_ms |-> v])) :
        v \in LatencyValues }
    \cup { With(ValidEnvelope(<<SigWarn>>), "constraints",
                PyDict([max_latency_ms |-> v, fail_closed |-> PyBool(FALSE)])) :
             v \in LatencyValues }
    \cup { With(ValidEnvelope(<<SigWarn>>), "constraints", c) :
             c \in { PyList(<<>>), PyInt(0), PyBool(FALSE), PyStr(""), PyInf,
                     PyList(<<PyNaN>>), PyDict([fail_closed |-> PyStr("no")]) } }

Requests ==
    GoodRequests \cup BadSignalRequests \cup DeviantRequests \cup NonDictRequests
    \cup BulkRequests \cup UnknownKeyRequests \cup PaddedRequests
    \cup FieldRuleRequests \cup FailOpenRequests \cup ConstraintRequests

\* The requests of the purity specification.
PurityRequests ==
    { ValidEnvelope(sigs) : sigs \in SeqsUpTo({SigAllow, SigWarn, SigBlock}, MaxPuritySignals) }
    \cup Deviants(1)
    \cup {PyStr("nope")}

----------------------------------------------------------------------------
(* The objects of one call: which lists evaluate writes to *)

\* The caller's own signals list, and a list made during the call.
CallersList == "signals of the argument"
NewList == "made by the call"

\* As bound_to, had evaluate sorted req.signals itself.
bound_to_sorting_the_callers_list(name) ==
    IF name \in {"req.signals", "unique_signals"} THEN CallersList ELSE NewList

\* The list object a name of evaluate is bound to. from_dict hands the
\* caller's list on as req.signals (signals=sigs); validated starts as [],
\* unique_signals is list(unique_by_hash.values()), and out starts as [] in
\* _stable_signals.
bound_to(name) ==
    IF name = "req.signals" THEN CallersList ELSE NewList

\* The parsed request passes the version, component and signal-count gates
\* and gets to the loop over req.signals.
reaches_validation(parsed) ==
    /\ parsed.ok
    /\ ~version_mismatch(parsed.req)
    /\ ~component_mismatch(parsed.req)
    /\ Len(parsed.req.signals) <= signal_cap

\* The signals that the loop appends to validated before it returns.
validated_before_return(signals) ==
    LET k == CHOOSE k \in 0..Len(signals) :
                 /\ first_invalid(SubSeq(signals, 1, k)) = ""
                 /\ k < Len(signals) => first_invalid(SubSeq(signals, 1, k + 1)) # ""
    IN SubSeq(signals, 1, k)

\* The writes to unique_signals and to out, once every signal was validated.
writes_after_validation(unique_signals) ==
    << [name |-> "unique_signals", elements |-> unique_signals],
       [name |-> "out", elements |-> stable_signals(unique_signals)] >>

\* The writes from the validation loop on.
writes_from_validation(signals, validated) ==
    << [name |-> "validated", elements |-> validated] >>
    \o IF Len(validated) < Len(signals) THEN <<>>
       ELSE writes_after_validation(stable_sort(dedup_by_hash(validated)))

\* The writes of a call whose request was parsed.
writes_after_parsing(parsed) ==
    IF ~reaches_validation(parsed) THEN <<>>
    ELSE writes_from_validation(parsed.req.signals,
                                validated_before_return(parsed.req.signals))

\* The writes of one call to a list in place, in program order: the name
\* written through and the elements of the list after the write. The other
\* statements of evaluate, from_dict and the helpers bind names or build new
\* values; none assigns through a signal mapping or through the request.
in_place_writes(req) ==
    IF encoded_size_bytes(req) > MAX_PAYLOAD_BYTES THEN <<>>
    ELSE writes_after_parsing(from_dict(req))

\* The caller's request object once the call is over: its signals list holds
\* what the last write through a name bound to it left there.
argument_after(req) ==
    LET writes == in_place_writes(req)
        hits == {i \in 1..Len(writes) : bound_to(writes[i].name) = CallersList}
    IN IF hits = {} THEN req
       ELSE LET last == CHOOSE i \in hits : \A j \in hits : j <= i
            IN With(req, "signals", PyList(writes[last].elements))

----------------------------------------------------------------------------
(* The state machine: one DQSNV3 instance and its callers *)

\* No call has been made.
Idle == [kind |-> "idle"]

Init ==
    /\ request = Absent
    /\ response = Idle
    /\ argument = Absent
    /\ earlier = [request |-> Absent, response |-> Idle]
    /\ now = 0

\* A caller invokes evaluate(R) and gets its result.
Evaluate(R) ==
    /\ response = Idle
    /\ request' = R
    /\ response' = evaluate(R)
    /\ argument' = argument_after(R)
    /\ UNCHANGED <<earlier, now>>

\* The caller is done with the result; the instance keeps nothing of the call.
Release ==
    /\ response # Idle
    /\ request' = Absent
    /\ response' = Idle
    /\ argument' = Absent
    /\ UNCHANGED <<earlier, now>>

\* The caller puts the call and its result aside, to compare a later call with.
Remember ==
    /\ response # Idle
    /\ earlier' = [request |-> request, response |-> response]
    /\ request' = Absent
    /\ response' = Idle
    /\ argument' = Absent
    /\ UNCHANGED now

\* Time passes on the host.
Tick ==
    /\ now < MaxClock
    /\ now' = now + 1
    /\ UNCHANGED <<request, response, argument, earlier>>

Next ==
    \/ \E R \in Requests : Evaluate(R)
    \/ Release

Spec == Init /\ [][Next]_vars

NextPurity ==
    \/ \E R \in PurityRequests : Evaluate(R)
    \/ Release
    \/ Remember
    \/ Tick

SpecPurity == Init /\ [][NextPurity]_vars

----------------------------------------------------------------------------
(* Vocabulary of the properties *)

\* The latest call returned an envelope whose decision is not ERROR.
Accepted == response # Idle /\ response.kind = "return" /\ response.value.decision # "ERROR"

\* The signals list of the latest request (of an accepted one, a list of dicts).
Signals == request.d["signals"].l

HashOf(s) == s.d["context_hash"].s
DecisionOf(s) == Upper(Strip(s.d["decision"].s))

\* The places of the signals that no earlier signal shares its context_hash with.
FirstPlaces(sigs) ==
    { i \in 1..Len(sigs) : \A j \in 1..(i - 1) : HashOf(sigs[j]) # HashOf(sigs[i]) }

\* The signals at those places, in the order of the list.
FirstOccurrences(sigs) ==
    [k \in 1..Cardinality(FirstPlaces(sigs)) |-> sigs[Nth(FirstPlaces(sigs), k)]]

\* The request R with another signals list.
WithSignals(R, sigs) == With(R, "signals", PyList(sigs))

\* The lists that hold the elements of sigs, each as often, in any order.
PermsOf(sigs) ==
    LET elems == { sigs[i] : i \in 1..Len(sigs) }
        count(q, x) == Cardinality({ i \in 1..Len(sigs) : q[i] = x })
    IN { q \in [1..Len(sigs) -> elems] : \A x \in elems : count(q, x) = count(sigs, x) }

\* sigs with x put after its first pos elements
InsertAt(sigs, pos, x) ==
    [i \in 1..(Len(sigs) + 1) |->
        IF i <= pos THEN sigs[i] ELSE IF i = pos + 1 THEN x ELSE sigs[i - 1]]

\* The keys of a response envelope.
EnvelopeKeys ==
    { "contract_version", "component", "request_id", "context_hash", "decision",
      "risk", "reason_codes", "evidence", "meta" }

----------------------------------------------------------------------------
(* C1 *)

\* C1: for every input value whatsoever, evaluate returns a fully-formed
\* response envelope and never raises; a fault inside the validator shows as
\* decision ERROR with the reason code DQSN_ERROR_INVALID_REQUEST.
C1_EvaluateNeverRaises ==
    response # Idle =>
        /\ response.kind = "return"
        /\ DOMAIN response.value = EnvelopeKeys
        /\ response.value.meta.fail_closed = TRUE
        /\ (/\ encoded_size_bytes(request) <= MAX_PAYLOAD_BYTES
            /\ ~from_dict(request).ok
            /\ from_dict(request).exc # "ValueError")
           => /\ response.value.decision = "ERROR"
              /\ response.value.reason_codes = <<"DQSN_ERROR_INVALID_REQUEST">>

----------------------------------------------------------------------------
(* C2 *)

\* The rollup of the spec over the decisions D of the kept signals.
SeverityRollup(D) ==
    IF "ERROR" \in D THEN "ERROR"
    ELSE IF "BLOCK" \in D THEN "BLOCK"
    ELSE IF "WARN" \in D THEN "ESCALATE"
    ELSE "ALLOW"

KeptDecisions == { DecisionOf(FirstOccurrences(Signals)[k]) : k \in 1..Cardinality(FirstPlaces(Signals)) }

----------------------------------------------------------------------------
(* C3 *)

\* C3 as stated: for every request and every permutation of its signals, also
\* when signals that share a context_hash differ in decision, risk or
\* reason_codes, evaluate returns an identical response.
C3_AnyOrderSameResponse ==
    (response # Idle /\ IsDict(request) /\ HasKey(request, "signals")
     /\ IsList(request.d["signals"]))
    => \A q \in PermsOf(Signals) : evaluate(WithSignals(request, q)) = response

\* The stable view of one signal.
ViewOf(s) == stable_signals(<<s>>)[1]

\* Signals that share a context_hash have one stable view.
DuplicatesAgree(sigs) ==
    \A i, j \in 1..Len(sigs) :
        HashOf(sigs[i]) = HashOf(sigs[j]) => ViewOf(sigs[i]) = ViewOf(sigs[j])

\* C3 as amended: for every request that evaluate accepts and in which the
\* signals that share a context_hash have the same stable view (component,
\* request_id, decision, risk, reason_codes), every permutation of the signals
\* gets an identical response.
C3_SameResponseWhenDuplicatesAgree ==
    (Accepted /\ DuplicatesAgree(Signals))
    => \A q \in PermsOf(Signals) : evaluate(WithSignals(request, q)) = response

\* An accepted request listed two different signals of one context_hash and
\* one stable view, and a signal of another context_hash after them, so that
\* the list has another order.
C3_Witness ==
    /\ Accepted
    /\ DuplicatesAgree(Signals)
    /\ \E i, j, k \in 1..Len(Signals) :
          /\ i < j /\ j < k
          /\ Signals[i] # Signals[j]
          /\ HashOf(Signals[i]) = HashOf(Signals[j])
          /\ HashOf(Signals[k]) # HashOf(Signals[i])
          /\ KeyLess(sort_key(Signals[k]), sort_key(Signals[i]))

----------------------------------------------------------------------------
(* C4 *)

\* C4: when several signals of a valid request share a context_hash, the one
\* that comes first in the input list is kept and the others are discarded:
\* decision, reason codes and evidence are those of the request cut down to
\* the first occurrences; dedup.input_signals is the length of the input list
\* and dedup.unique_signals the number of distinct context_hash values.
C4_FirstOccurrenceKept ==
    Accepted =>
        LET first == evaluate(WithSignals(request, FirstOccurrences(Signals)))
        IN /\ first.kind = "return"
           /\ response.value.decision = first.value.decision
           /\ response.value.reason_codes = first.value.reason_codes
           /\ response.value.risk = first.value.risk
           /\ response.value.evidence.signals = first.value.evidence.signals
           /\ response.value.context_hash = first.value.context_hash
           /\ response.value.evidence.dedup.input_signals = Len(Signals)
           /\ response.value.evidence.dedup.unique_signals =
                Cardinality({ HashOf(Signals[i]) : i \in 1..Len(Signals) })

\* An accepted request listed two signals of one context_hash whose stable
\* views differ, so that it shows which of the two was kept.
C4_Witness ==
    /\ Accepted
    /\ \E i, j \in 1..Len(Signals) :
          /\ i < j
          /\ HashOf(Signals[i]) = HashOf(Signals[j])
          /\ ViewOf(Signals[i]) # ViewOf(Signals[j])
          /\ DecisionOf(Signals[i]) # DecisionOf(Signals[j])
    /\ response.value.evidence.dedup.unique_signals < response.value.evidence.dedup.input_signals

----------------------------------------------------------------------------
(* C5 *)

\* The well-formed signals that the requests are built from, and that a
\* request may get one more of.
Insertable(sigs) == { s \in GoodSignals : \E i \in 1..Len(sigs) : HashOf(sigs[i]) = HashOf(s) }

\* The place of the first signal of sigs that carries the context_hash of s.
FirstPlaceOf(sigs, s) == CHOOSE i \in FirstPlaces(sigs) : HashOf(sigs[i]) = HashOf(s)

\* The decision and the evidence signals of an accepted answer.
DecisionAndEvidence(r) ==
    IF r.kind = "return" /\ r.value.decision # "ERROR"
    THEN <<r.value.decision, r.value.evidence.signals>>
    ELSE <<"ERROR">>

\* The request with signals sigs is accepted with the decision and the
\* evidence signals of the latest response.
SameDecisionAndEvidence(sigs) ==
    DecisionAndEvidence(evaluate(WithSignals(request, sigs))) = DecisionAndEvidence(response)

\* C5 as stated: inserting into a valid request, at any position, one more
\* well-formed signal whose context_hash the request already holds leaves the
\* decision and the evidence signals list as they were.
C5_DuplicateAnywhereChangesNothing ==
    Accepted =>
        \A s \in Insertable(Signals) : \A pos \in 0..Len(Signals) :
            SameDecisionAndEvidence(InsertAt(Signals, pos, s))

\* The request R has at most MAX_SIGNALS signals and is within the sizes that
\* from_dict and evaluate accept.
WithinLimits(R) ==
    /\ Len(R.d["signals"].l) <= MAX_SIGNALS
    /\ encoded_size_bytes(R) <= MAX_REQUEST_BYTES
    /\ NodeCount(R) <= MAX_REQUEST_NODES

\* C5 as amended: inserting into a valid request one more well-formed signal
\* whose context_hash the request already holds, at a position after the
\* first signal of that context_hash, leaves the decision and the evidence
\* signals list as they were, as long as the longer request has at most
\* MAX_SIGNALS signals and is within MAX_REQUEST_BYTES and MAX_REQUEST_NODES.
C5_DuplicateAfterFirstChangesNothing ==
    Accepted =>
        \A s \in Insertable(Signals) : \A pos \in FirstPlaceOf(Signals, s)..Len(Signals) :
            WithinLimits(WithSignals(request, InsertAt(Signals, pos, s)))
            => SameDecisionAndEvidence(InsertAt(Signals, pos, s))

\* An accepted request holds a signal whose context_hash another well-formed
\* signal of a different decision shares, and the longer list is within the cap.
C5_Witness ==
    /\ Accepted
    /\ Len(Signals) + 1 <= MAX_SIGNALS
    /\ \E s \in Insertable(Signals) :
          /\ DecisionOf(s) # DecisionOf(Signals[FirstPlaceOf(Signals, s)])
          /\ FirstPlaceOf(Signals, s) < Len(Signals)

\* An accepted request of exactly MAX_SIGNALS signals, which one more signal
\* takes over the cap.
C5_AtTheCap == Accepted /\ Len(Signals) = MAX_SIGNALS

----------------------------------------------------------------------------
(* C6 *)

----------------------------------------------------------------------------
(* C7 *)

\* The scores of the kept signals of the latest request, in hundredths.
KeptScores ==
    { ToFloat(FirstOccurrences(Signals)[k].d["risk"].d["score"]) :
        k \in 1..Cardinality(FirstPlaces(Signals)) }

MaxKeptScore == IF KeptScores = {} THEN 0 ELSE CHOOSE m \in KeptScores : \A x \in KeptScores : x <= m

\* The tier of a score by the thresholds 0.25, 0.60 and 0.85.
TierOfScore(h) ==
    IF h < 25 THEN "LOW" ELSE IF h < 60 THEN "MEDIUM" ELSE IF h < 85 THEN "HIGH" ELSE "CRITICAL"

\* C7 as stated: on a successful evaluation risk.score is the maximum
\* risk.score of the kept signals, 0.0 when none is kept, and risk.tier is the
\* tier of that score by the thresholds < 0.25 LOW, < 0.60 MEDIUM, < 0.85 HIGH,
\* otherwise CRITICAL.
C7_RiskIsMaxUpstreamScore ==
    Accepted =>
        /\ response.value.risk.score = MaxKeptScore
        /\ response.value.risk.tier = TierOfScore(MaxKeptScore)

\* C7 as amended: on a successful evaluation the risk follows from the
\* decision alone, whatever the scores of the signals: ALLOW gives
\* {0.0, LOW}, ESCALATE {0.5, MEDIUM} and BLOCK {1.0, HIGH}.
C7_RiskFollowsDecision ==
    Accepted =>
        response.value.risk =
            CASE response.value.decision = "ALLOW" -> [score |-> 0, tier |-> "LOW"]
              [] response.value.decision = "ESCALATE" -> [score |-> 50, tier |-> "MEDIUM"]
              [] response.value.decision = "BLOCK" -> [score |-> 100, tier |-> "HIGH"]

\* A successful evaluation kept a signal whose score is above the score of
\* the response.
C7_Witness ==
    /\ Accepted
    /\ response.value.decision = "ESCALATE"
    /\ MaxKeptScore > response.value.risk.score

----------------------------------------------------------------------------
(* C8 *)

OutcomeCode(decision) ==
    CASE decision = "ALLOW" -> "DQSN_OK_ALLOW"
      [] decision = "ESCALATE" -> "DQSN_ESCALATE_WARN"
      [] decision = "BLOCK" -> "DQSN_DENY_BLOCK"

OutcomeCodes == {"DQSN_OK_ALLOW", "DQSN_ESCALATE_WARN", "DQSN_DENY_BLOCK"}

\* The trimmed reason codes of the signals sigs.
TrimmedCodes(sigs) ==
    UNION { { Strip(sigs[i].d["reason_codes"].l[j].s) : j \in 1..Len(sigs[i].d["reason_codes"].l) } :
            i \in 1..Len(sigs) }

\* C8 as stated: on a successful evaluation reason_codes start with exactly
\* one outcome code, the one of the decision, followed at once by
\* DQSN_OK_SIGNAL_AGGREGATED when a signal was kept; with no kept signal the
\* list is exactly [DQSN_OK_ALLOW].
C8_OutcomeThenAggregated ==
    Accepted =>
        LET rc == response.value.reason_codes
        IN /\ Len(rc) >= 1
           /\ rc[1] = OutcomeCode(response.value.decision)
           /\ Cardinality({ i \in 1..Len(rc) : rc[i] \in OutcomeCodes }) = 1
           /\ Len(Signals) > 0 => (Len(rc) >= 2 /\ rc[2] = "DQSN_OK_SIGNAL_AGGREGATED")
           /\ Len(Signals) = 0 => rc = <<"DQSN_OK_ALLOW">>

\* C8 as amended: on a successful evaluation reason_codes start with the
\* outcome code of the decision; no DQSN_OK_SIGNAL_AGGREGATED is put after it:
\* every code that follows is a trimmed reason code of a signal of the
\* request (which may itself be an outcome code); with no kept signal the list
\* is exactly [DQSN_OK_ALLOW].
C8_OutcomeThenUpstream ==
    Accepted =>
        LET rc == response.value.reason_codes
        IN /\ Len(rc) >= 1
           /\ rc[1] = OutcomeCode(response.value.decision)
           /\ \A i \in 2..Len(rc) : rc[i] \in TrimmedCodes(Signals)
           /\ Len(Signals) = 0 => rc = <<"DQSN_OK_ALLOW">>

\* A successful evaluation kept a signal and the code after the outcome code
\* is an upstream code.
C8_Witness ==
    /\ Accepted
    /\ response.value.decision = "ESCALATE"
    /\ Len(Signals) > 0
    /\ Len(response.value.reason_codes) >= 2
    /\ response.value.reason_codes[2] # "DQSN_OK_SIGNAL_AGGREGATED"

\* A successful evaluation whose reason_codes hold two outcome codes, the
\* second one carried by a kept signal.
C8_TwoOutcomeCodes ==
    /\ Accepted
    /\ Cardinality({ i \in 1..Len(response.value.reason_codes) :
                       response.value.reason_codes[i] \in OutcomeCodes }) = 2

----------------------------------------------------------------------------
(* C9 *)

\* C9: upstream reason codes come only as the suffix after the outcome code,
\* and the suffix is the ascending, duplicate-free list of the trimmed reason
\* codes of the kept signals: every code of a kept signal is there, and a code
\* that only a discarded signal carries is not.
C9_SuffixIsKeptCodesSorted ==
    Accepted =>
        LET rc == response.value.reason_codes
            suffix == SubSeq(rc, 2, Len(rc))
        IN /\ \A i, j \in 1..Len(suffix) : i < j => StrLess(suffix[i], suffix[j])
           /\ { suffix[i] : i \in 1..Len(suffix) } = TrimmedCodes(FirstOccurrences(Signals))

\* A successful evaluation discarded a signal with a code that no kept signal
\* carries, and kept codes that had to be trimmed and put in order.
C9_Witness ==
    /\ Accepted
    /\ TrimmedCodes(Signals) # TrimmedCodes(FirstOccurrences(Signals))
    /\ \E k \in 1..Cardinality(FirstPlaces(Signals)) :
          LET codes == FirstOccurrences(Signals)[k].d["reason_codes"].l
          IN \E i, j \in 1..Len(codes) :
                /\ i < j
                /\ StrLess(Strip(codes[j].s), Strip(codes[i].s))
    /\ \E k \in 1..Cardinality(FirstPlaces(Signals)) :
          LET codes == FirstOccurrences(Signals)[k].d["reason_codes"].l
          IN \E i \in 1..Len(codes) : Strip(codes[i].s) # codes[i].s
    /\ Len(response.value.reason_codes) >= 3

----------------------------------------------------------------------------
(* C10 *)

\* x is, or holds somewhere under it, a NaN or an infinity.
RECURSIVE ContainsNonFinite(_)
ContainsNonFinite(x) ==
    CASE x.t = "nonfinite" -> TRUE
      [] x.t = "list" -> \E i \in 1..Len(x.l) : ContainsNonFinite(x.l[i])
      [] x.t = "dict" -> \E k \in DOMAIN x.d : ContainsNonFinite(x.d[k])
      [] OTHER -> FALSE

BadNumberResponse ==
    /\ response.kind = "return"
    /\ response.value.decision = "ERROR"
    /\ response.value.reason_codes = <<"DQSN_ERROR_BAD_NUMBER">>

\* C10 as stated: every request that holds a NaN or an infinity anywhere in
\* its tree (top level, inside a signal's risk, evidence, meta or
\* reason_codes, or inside constraints) is answered with decision ERROR and
\* the reason code DQSN_ERROR_BAD_NUMBER.  (The requests on which evaluate
\* raises are left to C1.)
C10_BadNumberAnywhere ==
    (response # Idle /\ response.kind = "return" /\ ContainsNonFinite(request))
    => BadNumberResponse

\* The checks that from_dict makes before it walks the request: a dict with
\* known keys only, an int contract_version, non-blank str component and
\* request_id, a list of at most REQUEST_MAX_SIGNALS signals, a serializable
\* payload within MAX_REQUEST_BYTES; and the walk stays within
\* MAX_REQUEST_NODES.
PassesEarlyChecks(R) ==
    /\ IsDict(R)
    /\ DOMAIN R.d \subseteq TOP_LEVEL_KEYS
    /\ HasKey(R, "contract_version") /\ IsInt(R.d["contract_version"])
    /\ HasKey(R, "component") /\ IsStr(R.d["component"]) /\ Strip(R.d["component"].s) # ""
    /\ HasKey(R, "request_id") /\ IsStr(R.d["request_id"]) /\ Strip(R.d["request_id"].s) # ""
    /\ HasKey(R, "signals") /\ IsList(R.d["signals"])
    /\ Len(R.d["signals"].l) <= REQUEST_MAX_SIGNALS
    /\ Serializable(R)
    /\ JsonSize(R) <= MAX_REQUEST_BYTES
    /\ NodeCount(R) <= MAX_REQUEST_NODES

\* C10 as amended: every request that passes the checks from_dict makes
\* before its walk, and that holds a NaN or an infinity anywhere under
\* signals or constraints, is answered with decision ERROR and the single
\* reason code DQSN_ERROR_BAD_NUMBER, whatever else is wrong with its signals,
\* its contract_version or its component.
C10_BadNumberAfterEarlyChecks ==
    (response # Idle /\ PassesEarlyChecks(request) /\ ContainsNonFinite(request))
    => BadNumberResponse

\* A request passed the early checks with a NaN or an infinity outside the
\* risk of its signals and was answered DQSN_ERROR_BAD_NUMBER.
C10_Witness ==
    /\ response # Idle
    /\ PassesEarlyChecks(request)
    /\ ContainsNonFinite(request)
    /\ ContainsNonFinite(request.d["signals"])
    /\ \A i \in 1..Len(Signals) :
          IsDict(Signals[i]) /\ HasKey(Signals[i], "risk") /\ ~ContainsNonFinite(Signals[i].d["risk"])
    /\ BadNumberResponse

\* A request passed the early checks with a NaN as its constraints and was
\* answered DQSN_ERROR_BAD_NUMBER.
C10_NaNConstraints ==
    /\ response # Idle
    /\ PassesEarlyChecks(request)
    /\ HasKey(request, "constraints")
    /\ ContainsNonFinite(request.d["constraints"])
    /\ BadNumberResponse

----------------------------------------------------------------------------
(* C11 *)

\* The request R lists a signal with a key outside SIGNAL_REQUIRED_KEYS, or
\* with a risk that has a key other than score and tier, or with a meta that
\* has a key other than fail_closed.
HasUnknownSignalKey(R) ==
    /\ IsDict(R) /\ HasKey(R, "signals") /\ IsList(R.d["signals"])
    /\ \E i \in 1..Len(R.d["signals"].l) :
          LET s == R.d["signals"].l[i]
          IN /\ IsDict(s)
             /\ \/ ~(DOMAIN s.d \subseteq SIGNAL_REQUIRED_KEYS)
                \/ (HasKey(s, "risk") /\ IsDict(s.d["risk"])
                    /\ ~(DOMAIN s.d["risk"].d \subseteq {"score", "tier"}))
                \/ (HasKey(s, "meta") /\ IsDict(s.d["meta"])
                    /\ ~(DOMAIN s.d["meta"].d \subseteq {"fail_closed"}))

\* C11: unknown keys are denied inside signals: a request that lists a signal
\* with an unknown key, or with an unknown key in its risk or in its meta, is
\* rejected: from_dict fails and evaluate returns decision ERROR.
C11_UnknownSignalKeyRejected ==
    (response # Idle /\ HasUnknownSignalKey(request))
    => /\ ~from_dict(request).ok
       /\ response.kind = "return"
       /\ response.value.decision = "ERROR"

----------------------------------------------------------------------------
(* C12 *)

\* The request R is a dict with a key outside TOP_LEVEL_KEYS.
HasUnknownTopLevelKey(R) == IsDict(R) /\ ~(DOMAIN R.d \subseteq TOP_LEVEL_KEYS)

\* C12: a request with a top-level key outside TOP_LEVEL_KEYS is answered with
\* decision ERROR and the reason code DQSN_ERROR_UNKNOWN_TOP_LEVEL_KEY,
\* whatever the values of its other fields.  (A request that json.dumps
\* cannot serialize, or beyond MAX_PAYLOAD_BYTES, is answered
\* DQSN_ERROR_PAYLOAD_TOO_LARGE before its keys are looked at; those requests
\* are left out here.)
C12_UnknownTopLevelKeyReported ==
    (/\ response # Idle
     /\ HasUnknownTopLevelKey(request)
     /\ encoded_size_bytes(request) <= MAX_PAYLOAD_BYTES)
    => /\ response.kind = "return"
       /\ response.value.decision = "ERROR"
       /\ response.value.reason_codes = <<"DQSN_ERROR_UNKNOWN_TOP_LEVEL_KEY">>

\* A request with an unknown top-level key that json.dumps cannot serialize
\* was answered DQSN_ERROR_PAYLOAD_TOO_LARGE.
C12_UnserializableUnknownKey ==
    /\ response # Idle
    /\ HasUnknownTopLevelKey(request)
    /\ ~Serializable(request)
    /\ response.kind = "return"
    /\ response.value.reason_codes = <<"DQSN_ERROR_PAYLOAD_TOO_LARGE">>

----------------------------------------------------------------------------
(* C13 *)

\* The request R is sound but perhaps for the number of its signals: it is
\* accepted with no signal, it is accepted with each of its signals alone,
\* and it is within MAX_REQUEST_BYTES and MAX_REQUEST_NODES.
OtherwiseValid(R) ==
    /\ IsDict(R) /\ HasKey(R, "signals") /\ IsList(R.d["signals"])
    /\ encoded_size_bytes(R) <= MAX_REQUEST_BYTES
    /\ NodeCount(R) <= MAX_REQUEST_NODES
    /\ DecisionAndEvidence(evaluate(WithSignals(R, <<>>))) # <<"ERROR">>
    /\ \A s \in { R.d["signals"].l[i] : i \in 1..Len(R.d["signals"].l) } :
          DecisionAndEvidence(evaluate(WithSignals(R, <<s>>))) # <<"ERROR">>

TooManyResponse ==
    /\ response.kind = "return"
    /\ response.value.decision = "ERROR"
    /\ response.value.reason_codes = <<"DQSN_ERROR_SIGNAL_TOO_MANY">>

\* C13 as stated: an otherwise valid request with n signals is rejected with
\* DQSN_ERROR_SIGNAL_TOO_MANY if and only if n > 256; every count from 0 to 256
\* is aggregated normally.
C13_RejectedBeyond256 ==
    (response # Idle /\ OtherwiseValid(request))
    => /\ TooManyResponse <=> Len(Signals) > REQUEST_MAX_SIGNALS
       /\ Len(Signals) <= REQUEST_MAX_SIGNALS => Accepted

\* What evaluate does: an otherwise valid request with n signals is rejected
\* with DQSN_ERROR_SIGNAL_TOO_MANY if and only if n > 128, the lesser of the
\* cap of DQSNV3 and the limit of DQSNV3Request.
EvaluateRejectsBeyond128 ==
    (response # Idle /\ OtherwiseValid(request))
    => /\ TooManyResponse <=> Len(Signals) > MAX_SIGNALS
       /\ Len(Signals) <= MAX_SIGNALS => Accepted

\* An otherwise valid request of a number of signals between the cap of
\* evaluate and the limit of from_dict was answered DQSN_ERROR_SIGNAL_TOO_MANY.
C13_RejectedWithinTheLimit ==
    /\ response # Idle
    /\ OtherwiseValid(request)
    /\ Len(Signals) > MAX_SIGNALS
    /\ Len(Signals) <= REQUEST_MAX_SIGNALS
    /\ from_dict(request).ok
    /\ TooManyResponse

----------------------------------------------------------------------------
(* C14 *)

\* The request R passes the checks that from_dict makes before it looks at
\* the signals: it is a mapping of known keys with an integer
\* contract_version and non-blank strings for component and request_id.
ReachesSignalsCheck(R) ==
    /\ IsDict(R)
    /\ DOMAIN R.d \subseteq TOP_LEVEL_KEYS
    /\ HasKey(R, "contract_version") /\ IsInt(R.d["contract_version"])
    /\ HasKey(R, "component") /\ IsStr(R.d["component"])
    /\ Strip(R.d["component"].s) # ""
    /\ HasKey(R, "request_id") /\ IsStr(R.d["request_id"])
    /\ Strip(R.d["request_id"].s) # ""

SignalsAbsentOrNoSequence(R) ==
    IsDict(R) /\ (HasKey(R, "signals") => ~IsList(R.d["signals"]))

\* C14: when the top-level signals field is absent or is not a sequence,
\* from_dict raises ValueError carrying DQSN_ERROR_SIGNALS_REQUIRED and
\* evaluate returns decision ERROR with that code.
C14_SignalsRequired ==
    (/\ response # Idle
     /\ ReachesSignalsCheck(request)
     /\ SignalsAbsentOrNoSequence(request))
    => /\ from_dict(request) = Raise("ValueError", "DQSN_ERROR_SIGNALS_REQUIRED")
       /\ response.kind = "return"
       /\ response.value.decision = "ERROR"
       /\ response.value.reason_codes = <<"DQSN_ERROR_SIGNALS_REQUIRED">>

----------------------------------------------------------------------------
(* C15 *)

\* The request is accepted by from_dict, is of contract_version 3 and within
\* the payload limit, and its component, trimmed, is not "dqsn".
OtherComponent ==
    /\ response # Idle
    /\ encoded_size_bytes(request) <= MAX_PAYLOAD_BYTES
    /\ from_dict(request).ok
    /\ request.d["contract_version"] = PyInt(3)
    /\ Strip(request.d["component"].s) # "dqsn"

\* C15 as stated: a structurally valid request whose component is a non-empty
\* string other than "dqsn" (after trimming) yields decision ERROR with reason
\* code DQSN_ERROR_COMPONENT_MISMATCH.
C15_ComponentMismatchCode ==
    OtherComponent
    => /\ response.kind = "return"
       /\ response.value.decision = "ERROR"
       /\ response.value.reason_codes = <<"DQSN_ERROR_COMPONENT_MISMATCH">>

\* C15 as amended: a structurally valid request of contract_version 3 whose
\* component is a non-empty string other than "dqsn" (after trimming) yields
\* decision ERROR with the single reason code DQSN_ERROR_INVALID_REQUEST, and
\* none of its signals is counted as unique.
C15_ComponentMismatchIsInvalidRequest ==
    OtherComponent
    => /\ response.kind = "return"
       /\ response.value.decision = "ERROR"
       /\ response.value.reason_codes = <<"DQSN_ERROR_INVALID_REQUEST">>
       /\ response.value.evidence.dedup =
             [input_signals |-> Len(Signals), unique_signals |-> 0]

\* A request of sound signals for the component "other" was answered.
C15_Witness ==
    /\ OtherComponent
    /\ request.d["component"] = PyStr("other")
    /\ Len(Signals) > 0
    /\ response.kind = "return"
    /\ response.value.decision = "ERROR"

----------------------------------------------------------------------------
(* C16 *)

\* R with the contract_version 3 and the component "dqsn"
Repaired(R, keys) ==
    LET R1 == IF "contract_version" \in keys
              THEN With(R, "contract_version", PyInt(3)) ELSE R
    IN IF "component" \in keys THEN With(R1, "component", PyStr("dqsn")) ELSE R1

WrongVersion(R) ==
    IsDict(R) /\ Get(R, "contract_version", PyNone) # PyInt(3)

\* The component of R is absent or is not "dqsn" once trimmed.
WrongComponent(R) ==
    /\ IsDict(R)
    /\ LET c == Get(R, "component", PyNone)
       IN ~IsStr(c) \/ Strip(c.s) # "dqsn"

\* The component of R is absent, no string or blank: the component that
\* from_dict rejects.
ShapelessComponent(R) ==
    /\ IsDict(R)
    /\ LET c == Get(R, "component", PyNone)
       IN ~IsStr(c) \/ Strip(c.s) = ""

SoundWhenRepaired(R, keys) ==
    DecisionAndEvidence(evaluate(Repaired(R, keys))) # <<"ERROR">>

FailsClosedWith(code) ==
    /\ response.kind = "return"
    /\ response.value.decision = "ERROR"
    /\ response.value.meta.fail_closed = TRUE
    /\ response.value.reason_codes = <<code>>

\* C16 as stated: any otherwise valid request whose contract_version is not
\* the integer 3 fails closed with decision ERROR, meta.fail_closed true and
\* the reason code DQSN_ERROR_SCHEMA_VERSION; when both contract_version and
\* component are wrong, the version error is the one reported.
C16_VersionErrorWins ==
    (/\ response # Idle
     /\ WrongVersion(request)
     /\ \/ SoundWhenRepaired(request, {"contract_version"})
        \/ /\ WrongComponent(request)
           /\ SoundWhenRepaired(request, {"contract_version", "component"}))
    => FailsClosedWith("DQSN_ERROR_SCHEMA_VERSION")

\* C16 as amended: any otherwise valid request whose contract_version is not
\* the integer 3 fails closed with DQSN_ERROR_SCHEMA_VERSION; when the
\* component is wrong too, the version error is reported if contract_version
\* is no integer or the component is a non-blank string, and
\* DQSN_ERROR_INVALID_REQUEST is reported if contract_version is an integer
\* or a boolean and the component is absent, no string or blank.
C16_VersionErrorUnlessShapelessComponent ==
    (/\ response # Idle
     /\ WrongVersion(request)
     /\ \/ SoundWhenRepaired(request, {"contract_version"})
        \/ /\ WrongComponent(request)
           /\ SoundWhenRepaired(request, {"contract_version", "component"}))
    => IF /\ IsInt(Get(request, "contract_version", PyNone))
          /\ ShapelessComponent(request)
       THEN FailsClosedWith("DQSN_ERROR_INVALID_REQUEST")
       ELSE FailsClosedWith("DQSN_ERROR_SCHEMA_VERSION")

\* A request of the version 999 for the component "other" was answered with
\* the version error.
C16_Witness ==
    /\ response # Idle
    /\ IsDict(request)
    /\ Get(request, "contract_version", PyNone) = PyInt(999)
    /\ Get(request, "component", PyNone) = PyStr("other")
    /\ SoundWhenRepaired(request, {"contract_version", "component"})
    /\ FailsClosedWith("DQSN_ERROR_SCHEMA_VERSION")

\* A request of the version 999 with a component that is no string was
\* answered with DQSN_ERROR_INVALID_REQUEST.
C16_ShapelessComponentWins ==
    /\ response # Idle
    /\ IsDict(request)
    /\ Get(request, "contract_version", PyNone) = PyInt(999)
    /\ Get(request, "component", PyNone) = PyInt(5)
    /\ SoundWhenRepaired(request, {"contract_version", "component"})
    /\ FailsClosedWith("DQSN_ERROR_INVALID_REQUEST")

----------------------------------------------------------------------------
(* C17 *)

\* The reason code of each of the eleven checks, in their order.
CheckCode ==
    << "DQSN_ERROR_INVALID_REQUEST", "DQSN_ERROR_UNKNOWN_TOP_LEVEL_KEY",
       "DQSN_ERROR_SCHEMA_VERSION", "DQSN_ERROR_INVALID_REQUEST",
       "DQSN_ERROR_INVALID_REQUEST", "DQSN_ERROR_SIGNALS_REQUIRED",
       "DQSN_ERROR_SIGNAL_TOO_MANY", "DQSN_ERROR_PAYLOAD_TOO_LARGE",
       "DQSN_ERROR_BAD_NUMBER", "DQSN_ERROR_SIGNAL_INVALID",
       "DQSN_ERROR_INVALID_REQUEST" >>

\* The request R fails the check of the number c, taken by itself.
FailsCheck(R, c) ==
    LET cv == Get(R, "contract_version", Absent)
        comp == Get(R, "component", Absent)
        rid == Get(R, "request_id", Absent)
        sigs == Get(R, "signals", Absent)
        con == Get(R, "constraints", PyNone)
    IN CASE c = 1 -> ~IsDict(R)
         [] ~IsDict(R) -> FALSE
         [] c = 2 -> ~(DOMAIN R.d \subseteq TOP_LEVEL_KEYS)
         [] c = 3 -> cv.t # "int"
         [] c = 4 -> ~IsStr(comp) \/ Strip(comp.s) = ""
         [] c = 5 -> ~IsStr(rid) \/ Strip(rid.s) = ""
         [] c = 6 -> ~IsList(sigs)
         [] c = 7 -> IsList(sigs) /\ Len(sigs.l) > REQUEST_MAX_SIGNALS
         [] c = 8 -> Serializable(R) /\ JsonSize(R) > MAX_REQUEST_BYTES
         [] c = 9 -> ContainsNonFinite(R)
         [] c = 10 -> IsList(sigs) /\ \E i \in 1..Len(sigs.l) : ~SignalStructureOk(sigs.l[i])
         [] c = 11 -> con # PyNone /\ ~IsDict(con)

FailedChecks(R) == { c \in 1..Len(CheckCode) : FailsCheck(R, c) }

EarliestFailedCheck(R) ==
    CHOOSE c \in FailedChecks(R) : \A e \in FailedChecks(R) : c <= e

\* C17: when a request violates several validator rules at once, the reported
\* reason code is that of the earliest failing check in the fixed order of the
\* eleven checks (requests that cannot be serialized or are beyond the
\* payload limit of evaluate left out).
C17_EarliestFailingCheckReported ==
    (/\ response # Idle
     /\ Serializable(request)
     /\ encoded_size_bytes(request) <= MAX_PAYLOAD_BYTES
     /\ Cardinality(FailedChecks(request)) >= 2)
    => /\ response.kind = "return"
       /\ response.value.decision = "ERROR"
       /\ response.value.reason_codes = <<CheckCode[EarliestFailedCheck(request)]>>

\* A request with a contract_version that is no integer and with signals
\* that are None was given to evaluate, and evaluate raised.
C17_RaisesInsteadOfReporting ==
    /\ response # Idle
    /\ FailedChecks(request) = {3, 6}
    /\ Get(request, "contract_version", Absent) = PyStr("3")
    /\ Get(request, "signals", Absent) = PyNone
    /\ response.kind = "raise"

----------------------------------------------------------------------------
(* C18 *)

\* The members of ReasonCode of the DQSN_ERROR_ family
ErrorFamily ==
    ReasonCodeMembers \ {"DQSN_OK_ALLOW", "DQSN_ESCALATE_WARN", "DQSN_DENY_BLOCK"}

ErrorResponse ==
    response # Idle /\ response.kind = "return" /\ response.value.decision = "ERROR"

\* C18: every response with decision ERROR has the risk {score 1.0, tier
\* CRITICAL}, exactly one reason code, of the DQSN_ERROR_ family,
\* evidence.details.error equal to that code, and no list of signals anywhere
\* in evidence.
C18_ErrorResponseShape ==
    ErrorResponse
    => LET v == response.value IN
       /\ v.risk = [score |-> 100, tier |-> "CRITICAL"]
       /\ Len(v.reason_codes) = 1
       /\ v.reason_codes[1] \in ErrorFamily
       /\ v.evidence.details = [error |-> v.reason_codes[1]]
       /\ DOMAIN v.evidence = {"dedup", "details"}
       /\ DOMAIN v.evidence.dedup = {"input_signals", "unique_signals"}
       /\ v.evidence.dedup.input_signals \in Nat
       /\ v.evidence.dedup.unique_signals \in Nat

\* A request with a list of signals was answered with decision ERROR for one
\* of its signals.
C18_Witness ==
    /\ ErrorResponse
    /\ from_dict(request) = Raise("ValueError", "DQSN_ERROR_SIGNAL_INVALID")
    /\ Len(Signals) > 1
    /\ response.value.reason_codes = <<"DQSN_ERROR_SIGNAL_INVALID">>
    /\ response.value.evidence.dedup.input_signals = Len(Signals)

----------------------------------------------------------------------------
(* C19 *)

\* C19: every response returned by evaluate, on success and on every error
\* path, carries contract_version 3, component "dqsn" and the meta
\* {latency_ms: 0, fail_closed: true}, whatever the constraints of the request
\* or the meta of the signals say.
C19_FixedEnvelope ==
    (response # Idle /\ response.kind = "return")
    => /\ response.value.contract_version = 3
       /\ response.value.component = "dqsn"
       /\ response.value.meta = [latency_ms |-> 0, fail_closed |-> TRUE]

\* A request whose constraints ask for fail_closed false and a latency
\* bound of 100000 was accepted.
C19_Witness ==
    /\ Accepted
    /\ Get(request, "constraints", PyNone) =
          PyDict([max_latency_ms |-> PyInt(100000), fail_closed |-> PyBool(FALSE)])
    /\ Len(Signals) > 0
    /\ response.value.meta = [latency_ms |-> 0, fail_closed |-> TRUE]

\* A request whose constraints ask for fail_closed false was answered with
\* decision ERROR.
C19_ErrorPath ==
    /\ ErrorResponse
    /\ IsDict(request)
    /\ Get(request, "constraints", PyNone) =
          PyDict([max_latency_ms |-> PyInt(100000), fail_closed |-> PyBool(FALSE)])
    /\ response.value.meta = [latency_ms |-> 0, fail_closed |-> TRUE]

----------------------------------------------------------------------------
(* C20 *)

\* The request is a mapping whose request_id is a non-empty string, and it
\* was answered.
AnsweredWithRequestId ==
    /\ response # Idle
    /\ response.kind = "return"
    /\ IsDict(request)
    /\ HasKey(request, "request_id")
    /\ IsStr(request.d["request_id"])
    /\ request.d["request_id"].s # ""

\* The request came through the size check of evaluate and from_dict.
Parsed ==
    /\ encoded_size_bytes(request) <= MAX_PAYLOAD_BYTES
    /\ from_dict(request).ok

\* C20 as stated: for every request whose request_id is a non-empty string,
\* the request_id of the response equals that of the request character for
\* character, surrounding whitespace included, on success responses and on
\* ERROR responses alike.
C20_RequestIdVerbatim ==
    AnsweredWithRequestId
    => response.value.request_id = request.d["request_id"].s

\* C20 as amended: for every request whose request_id is a non-empty string,
\* the request_id of the response is that of the request with the
\* surrounding whitespace trimmed when from_dict accepts the request (success
\* responses and the ERROR responses of the gates of evaluate), and that of
\* the request character for character when the request is rejected before
\* or by from_dict.
C20_RequestIdTrimmedOnceParsed ==
    AnsweredWithRequestId
    => response.value.request_id =
          IF Parsed THEN Strip(request.d["request_id"].s)
          ELSE request.d["request_id"].s

\* A request with whitespace around its request_id was accepted.
C20_Witness ==
    /\ AnsweredWithRequestId
    /\ Accepted
    /\ request.d["request_id"] = PyStr(" rq1 ")
    /\ response.value.request_id = "rq1"

\* A request with whitespace around its request_id was rejected by from_dict
\* and answered with the request_id as given.
C20_VerbatimOnRejection ==
    /\ AnsweredWithRequestId
    /\ ~from_dict(request).ok
    /\ request.d["request_id"] = PyStr(" rq1 ")
    /\ response.value.request_id = " rq1 "

\* A request with whitespace around its request_id was accepted by from_dict
\* and answered with decision ERROR and the trimmed request_id.
C20_TrimmedOnGateError ==
    /\ AnsweredWithRequestId
    /\ Parsed
    /\ ErrorResponse
    /\ request.d["request_id"] = PyStr(" rq1 ")
    /\ response.value.request_id = "rq1"

----------------------------------------------------------------------------
(* C21 *)

\* The evidence mappings and the constraints that the variants of a request
\* are given.
OtherEvidence == {EmptyDict, PyDict([x |-> PyList(<<PyInt(1)>>)])}
OtherConstraints ==
    { PyNone, PyDict([max_latency_ms |-> PyInt(100000), fail_closed |-> PyBool(FALSE)]) }

\* The requests that differ from R in the evidence of one signal at most and
\* in the constraints.
EvidenceVariants(R) ==
    LET sigs == R.d["signals"].l
        lists == {sigs} \cup
                 { [sigs EXCEPT ![i] = With(sigs[i], "evidence", e)] :
                     i \in 1..Len(sigs), e \in OtherEvidence }
    IN { With(WithSignals(R, q), "constraints", c) : q \in lists, c \in OtherConstraints }

StableViewKeys ==
    {"component", "request_id", "context_hash", "decision", "risk", "reason_codes"}

\* C21: each entry of evidence.signals has exactly the keys component,
\* request_id, context_hash, decision, risk {score, tier} and reason_codes,
\* and two valid requests that differ only in the contents of the evidence
\* of their signals or in their constraints get identical responses.
C21_EvidenceAndConstraintsDoNotMatter ==
    (Accepted /\ Len(Signals) <= MaxSignals + 1)
    => /\ \A i \in 1..Len(response.value.evidence.signals) :
             /\ DOMAIN response.value.evidence.signals[i] = StableViewKeys
             /\ DOMAIN response.value.evidence.signals[i].risk = {"score", "tier"}
       /\ \A V \in EvidenceVariants(request) :
             LET answer == evaluate(V)
             IN DecisionAndEvidence(answer) # <<"ERROR">> => answer = response

\* An accepted request held a signal with evidence and one without, and a
\* variant of it with other evidence and other constraints is valid too.
C21_Witness ==
    /\ Accepted
    /\ Len(Signals) >= 2
    /\ \E i, j \in 1..Len(Signals) :
          /\ Signals[i].d["evidence"] # EmptyDict
          /\ Signals[j].d["evidence"] = EmptyDict
    /\ \E V \in EvidenceVariants(request) :
          /\ V # request
          /\ Get(V, "constraints", Absent) # Get(request, "constraints", Absent)
          /\ DecisionAndEvidence(evaluate(V)) # <<"ERROR">>

----------------------------------------------------------------------------
(* C22 *)

\* C22 as stated: on a successful evaluation the context_hash of the response
\* is the canonical hash of the mapping whose keys are exactly component,
\* contract_version, request_id, signals (the stable views of the kept
\* signals), decision and risk {score, tier}.
C22_HashOverRisk ==
    Accepted
    => response.value.context_hash =
          canonical_sha256([ component |-> "dqsn",
                             contract_version |-> 3,
                             request_id |-> response.value.request_id,
                             signals |-> response.value.evidence.signals,
                             decision |-> response.value.decision,
                             risk |-> response.value.risk ])

\* C22 as amended: on a successful evaluation the context_hash of the
\* response is the canonical hash of the mapping whose keys are exactly
\* component, contract_version, request_id, signals (the stable views of the
\* kept signals), decision and reason_codes (the reason codes of the
\* response); the risk does not enter the hash.
C22_HashOverReasonCodes ==
    Accepted
    => response.value.context_hash =
          canonical_sha256([ component |-> "dqsn",
                             contract_version |-> 3,
                             request_id |-> response.value.request_id,
                             signals |-> response.value.evidence.signals,
                             decision |-> response.value.decision,
                             reason_codes |-> response.value.reason_codes ])

\* An accepted request of several kept signals with reason codes of their own
\* was hashed.
C22_Witness ==
    /\ Accepted
    /\ Len(response.value.evidence.signals) >= 2
    /\ Len(response.value.reason_codes) >= 2
    /\ DOMAIN response.value.context_hash.sha256 =
          {"component", "contract_version", "request_id", "signals", "decision", "reason_codes"}

----------------------------------------------------------------------------
(* C23 *)

\* The request cannot be serialized, or its canonical JSON is larger than
\* MAX_PAYLOAD_BYTES.
Oversize(R) == ~Serializable(R) \/ JsonSize(R) > MAX_PAYLOAD_BYTES

\* C23: a request whose canonical JSON encoding is larger than
\* MAX_PAYLOAD_BYTES, or that cannot be serialized at all, gets decision ERROR
\* with DQSN_ERROR_PAYLOAD_TOO_LARGE as its first reason code, even when it
\* has an unknown top-level key or other defects.
C23_PayloadProtectionFirst ==
    (response # Idle /\ Oversize(request))
    => /\ response.kind = "return"
       /\ response.value.decision = "ERROR"
       /\ response.value.reason_codes[1] = "DQSN_ERROR_PAYLOAD_TOO_LARGE"

\* A request one byte beyond MAX_PAYLOAD_BYTES, with an unknown top-level key
\* and signals that are None, was answered.
C23_Witness ==
    /\ response # Idle
    /\ IsDict(request)
    /\ Serializable(request)
    /\ JsonSize(request) = MAX_PAYLOAD_BYTES + 1
    /\ HasUnknownTopLevelKey(request)
    /\ Get(request, "signals", Absent) = PyNone
    /\ response.kind = "return"

\* A request of exactly MAX_PAYLOAD_BYTES with an unknown top-level key was
\* answered with the code of the unknown key.
C23_AtTheLimit ==
    /\ response # Idle
    /\ IsDict(request)
    /\ Serializable(request)
    /\ JsonSize(request) = MAX_PAYLOAD_BYTES
    /\ HasUnknownTopLevelKey(request)
    /\ response.kind = "return"
    /\ response.value.reason_codes = <<"DQSN_ERROR_UNKNOWN_TOP_LEVEL_KEY">>

\* A request that cannot be serialized, with an unknown top-level key, was
\* answered.
C23_Unserializable ==
    /\ response # Idle
    /\ IsDict(request)
    /\ ~Serializable(request)
    /\ HasUnknownTopLevelKey(request)
    /\ response.kind = "return"

----------------------------------------------------------------------------
(* C24 *)

NonBlankStr(x) == IsStr(x) /\ Strip(x.s) # ""

\* The field rules of a signal.
FieldRules(s) ==
    /\ IsDict(s)
    /\ { "contract_version", "component", "request_id", "context_hash", "decision",
         "risk", "reason_codes", "evidence", "meta" } \subseteq DOMAIN s.d
    /\ \/ s.d["contract_version"] = PyInt(3)
       \/ s.d["contract_version"] = PyFloat(300)
    /\ NonBlankStr(s.d["component"])
    /\ NonBlankStr(s.d["request_id"])
    /\ NonBlankStr(s.d["context_hash"])
    /\ IsStr(s.d["decision"])
    /\ Upper(Strip(s.d["decision"].s)) \in {"ALLOW", "WARN", "BLOCK", "ERROR"}
    /\ IsDict(s.d["risk"])
    /\ HasKey(s.d["risk"], "score")
    /\ s.d["risk"].d["score"].t \in {"int", "float"}
    /\ ToFloat(s.d["risk"].d["score"]) \in 0..100
    /\ HasKey(s.d["risk"], "tier")
    /\ IsStr(s.d["risk"].d["tier"])
    /\ Upper(Strip(s.d["risk"].d["tier"].s)) \in {"LOW", "MEDIUM", "HIGH", "CRITICAL"}
    /\ IsList(s.d["reason_codes"])
    /\ Len(s.d["reason_codes"].l) <= 64
    /\ \A i \in 1..Len(s.d["reason_codes"].l) :
          /\ NonBlankStr(s.d["reason_codes"].l[i])
          /\ Len(s.d["reason_codes"].l[i].s) <= 96
    /\ IsDict(s.d["evidence"])
    /\ IsDict(s.d["meta"])

\* The request gets as far as the per-signal validation of from_dict.
ReachesSignalValidation(R) ==
    PassesEarlyChecks(R) /\ types_walk_check_finite(R, MAX_REQUEST_NODES) = ""

C24_LongestCodeAccepted ==
    /\ Accepted
    /\ \E i \in 1..Len(Signals) :
          \E j \in 1..Len(Signals[i].d["reason_codes"].l) :
              Signals[i].d["reason_codes"].l[j] = PyStr(LongestCode)

----------------------------------------------------------------------------
(* C25 *)

\* The meta of the signal s does not hold fail_closed: True.
FailOpen(s) ==
    IsDict(s) /\ HasKey(s, "meta") /\ IsDict(s.d["meta"])
    /\ Get(s.d["meta"], "fail_closed", Absent) # PyBool(TRUE)

\* The request has a list of signals with a signal that is not fail-closed.
HasFailOpenSignal(R) ==
    /\ IsDict(R) /\ HasKey(R, "signals") /\ IsList(R.d["signals"])
    /\ \E i \in 1..Len(R.d["signals"].l) : FailOpen(R.d["signals"].l[i])

\* The request is accepted by from_dict, with contract_version 3, component
\* dqsn and no more signals than the cap of evaluate allows.
PassesTheGates(R) ==
    /\ encoded_size_bytes(R) <= MAX_PAYLOAD_BYTES
    /\ from_dict(R).ok
    /\ R.d["contract_version"] = PyInt(3)
    /\ Strip(R.d["component"].s) = "dqsn"
    /\ Len(R.d["signals"].l) <= MAX_SIGNALS

\* C25 as stated: evaluate rejects with DQSN_ERROR_SIGNAL_INVALID every
\* request containing a signal whose meta.fail_closed is not exactly true;
\* and a request that from_dict accepts, with contract_version 3, component
\* dqsn and a signal count within the cap of evaluate, is turned into an
\* ERROR by evaluate only for that reason.
C25_EveryFailOpenRequestSignalInvalid ==
    response # Idle
    => /\ HasFailOpenSignal(request) => FailsClosedWith("DQSN_ERROR_SIGNAL_INVALID")
       /\ (PassesTheGates(request) /\ ~Accepted) => HasFailOpenSignal(request)

\* C25 as amended: from_dict accepts a signal whose meta lacks fail_closed;
\* a request that from_dict accepts, with contract_version 3, component dqsn
\* and a signal count within the cap of evaluate, is rejected by evaluate
\* with DQSN_ERROR_SIGNAL_INVALID if it holds a signal whose
\* meta.fail_closed is not exactly true, and is aggregated otherwise.
C25_FailOpenIsTheOnlyLateRejection ==
    (response # Idle /\ PassesTheGates(request))
    => IF HasFailOpenSignal(request)
       THEN FailsClosedWith("DQSN_ERROR_SIGNAL_INVALID")
       ELSE Accepted

\* A request with a signal whose meta is empty was accepted by from_dict and
\* rejected by evaluate.
C25_Witness ==
    /\ response # Idle
    /\ PassesTheGates(request)
    /\ \E i \in 1..Len(Signals) : Signals[i].d["meta"] = EmptyDict
    /\ FailsClosedWith("DQSN_ERROR_SIGNAL_INVALID")

----------------------------------------------------------------------------
(* C26 *)

\* The constraints of the request: Absent, or the value under the key.
SuppliedConstraints(R) == Get(R, "constraints", Absent)

\* The max_latency_ms that the caller supplied: Absent, or the value under
\* the key of the constraints mapping.
SuppliedLatency(R) ==
    IF IsDict(SuppliedConstraints(R))
    THEN Get(SuppliedConstraints(R), "max_latency_ms", Absent)
    ELSE Absent

\* The integer that a supplied value converts to, or 2500 when there is no
\* value or none that converts: an int is itself, a bool is 0 or 1, a float is
\* cut towards zero, a str is the number it spells.
ConvertedLatency(v) ==
    CASE v.t = "int" -> v.n
      [] v.t = "bool" -> IF v.b THEN 1 ELSE 0
      [] v.t = "float" -> IF v.h >= 0 THEN v.h \div 100 ELSE 0 - ((0 - v.h) \div 100)
      [] v = PyStr("100") -> 100
      [] OTHER -> 2500

Clamped(n) == IF n < 0 THEN 0 ELSE IF n > 60000 THEN 60000 ELSE n

\* What C26 says of a request that from_dict accepts.
ConstraintsAsParsed(R) ==
    from_dict(R).ok
    => /\ from_dict(R).req.constraints.fail_closed = TRUE
       /\ from_dict(R).req.constraints.max_latency_ms \in 0..60000
       /\ from_dict(R).req.constraints.max_latency_ms =
             Clamped(ConvertedLatency(SuppliedLatency(R)))

\* R with constraints that are a mapping is accepted by from_dict.
SoundButForConstraints(R) ==
    IsDict(R) /\ from_dict(With(R, "constraints", EmptyDict)).ok

NoMapping(c) == c # Absent /\ c # PyNone /\ ~IsDict(c)

C26_ListConstraints ==
    /\ response # Idle
    /\ SoundButForConstraints(request)
    /\ SuppliedConstraints(request) = PyList(<<>>)
    /\ FailsClosedWith("DQSN_ERROR_INVALID_REQUEST")

----------------------------------------------------------------------------
(* C27 *)

\* The place of the request ids of the signals in the code-point order.
RequestIdRank(s) ==
    CASE s = "s1" -> 1 [] s = "s2" -> 2 [] s = "s3" -> 3 [] s = "s4" -> 4
      [] s = "s5" -> 5 [] OTHER -> 0

\* a comes before b in the order of (context_hash, component, request_id).
HashFirstLess(a, b) ==
    LET ha == HashOf(a)  hb == HashOf(b)
        ca == a.d["component"].s  cb == b.d["component"].s
        ra == RequestIdRank(a.d["request_id"].s)  rb == RequestIdRank(b.d["request_id"].s)
    IN \/ StrLess(ha, hb)
       \/ ha = hb /\ StrLess(ca, cb)
       \/ ha = hb /\ ca = cb /\ ra < rb

\* sigs in that order, equal signals in the order of the list.
HashFirstSorted(sigs) ==
    LET place(i) ==
            Cardinality({ j \in 1..Len(sigs) :
                            \/ HashFirstLess(sigs[j], sigs[i])
                            \/ (j < i /\ ~HashFirstLess(sigs[i], sigs[j])) }) + 1
    IN [p \in 1..Len(sigs) |-> sigs[CHOOSE i \in 1..Len(sigs) : place(i) = p]]

\* C27 as stated: the signals are put in ascending order of (context_hash,
\* component, request_id) before dedup and aggregation; the signal kept for
\* a context_hash is the first one under that order, and evidence.signals
\* lists the kept signals in that order.
C27_SortedBeforeDedup ==
    Accepted
    => response.value.evidence.signals =
          stable_signals(FirstOccurrences(HashFirstSorted(Signals)))

\* The key that the list of evidence.signals is in the order of.
ViewKey(v) == <<v.component, v.context_hash>>

\* C27 as amended: the signal kept for a context_hash is the first one in the
\* input list; the kept signals are then put in ascending order of
\* (component, context_hash), and evidence.signals lists their views in that
\* order.
C27_DedupThenSortedByComponent ==
    Accepted
    => LET ev == response.value.evidence.signals
           first == FirstOccurrences(Signals)
       IN /\ Len(ev) = Len(first)
          /\ \A k \in 1..Len(first) : \E i \in 1..Len(ev) : ev[i] = ViewOf(first[k])
          /\ \A i, j \in 1..Len(ev) : i < j => KeyLess(ViewKey(ev[i]), ViewKey(ev[j]))

\* An accepted request listed a signal before another one of the same
\* context_hash that the order of (context_hash, component, request_id)
\* puts first, and kept signals that the two orders put differently.
C27_Witness ==
    /\ Accepted
    /\ \E i, j \in 1..Len(Signals) :
          /\ i < j
          /\ HashOf(Signals[i]) = HashOf(Signals[j])
          /\ HashFirstLess(Signals[j], Signals[i])
    /\ \E i, j \in 1..Len(response.value.evidence.signals) :
          /\ i < j
          /\ StrLess(response.value.evidence.signals[j].context_hash,
                     response.value.evidence.signals[i].context_hash)

----------------------------------------------------------------------------
(* C28 *)

\* No two signals of the list share a context_hash.
DistinctHashes(sigs) ==
    \A i, j \in 1..Len(sigs) : i # j => HashOf(sigs[i]) # HashOf(sigs[j])

\* C28: for every request that evaluate accepts and whose signals have
\* pairwise distinct context_hash values, every permutation of the signals
\* list gets an identical response: evidence.signals holds every signal, in
\* the order of (component, context_hash), which no two of them share.
C28_DistinctHashesAnyOrder ==
    (Accepted /\ DistinctHashes(Signals))
    => /\ Len(response.value.evidence.signals) = Len(Signals)
       /\ \A i, j \in 1..Len(Signals) :
             i < j => KeyLess(ViewKey(response.value.evidence.signals[i]),
                              ViewKey(response.value.evidence.signals[j]))
       /\ \A q \in PermsOf(Signals) :
             evaluate(WithSignals(request, q)) = response

\* An accepted request listed three signals of three context_hash values,
\* two of them of one component, in another order than that of
\* evidence.signals.
C28_Witness ==
    /\ Accepted
    /\ DistinctHashes(Signals)
    /\ Len(Signals) >= 3
    /\ \E i, j \in 1..Len(Signals) :
          i # j /\ Signals[i].d["component"] = Signals[j].d["component"]
    /\ stable_signals(Signals) # response.value.evidence.signals

----------------------------------------------------------------------------
(* C29 *)

\* The risk and the first reason code that go with each decision.
RiskOfDecision(d) ==
    CASE d = "ALLOW" -> [score |-> 0, tier |-> "LOW"]
      [] d = "ESCALATE" -> [score |-> 50, tier |-> "MEDIUM"]
      [] d = "BLOCK" -> [score |-> 100, tier |-> "HIGH"]
      [] d = "ERROR" -> [score |-> 100, tier |-> "CRITICAL"]

FirstCodesOfDecision(d) ==
    CASE d = "ALLOW" -> {"DQSN_OK_ALLOW"}
      [] d = "ESCALATE" -> {"DQSN_ESCALATE_WARN"}
      [] d = "BLOCK" -> {"DQSN_DENY_BLOCK"}
      [] d = "ERROR" -> ErrorFamily

\* C29: in every response the decision is one of ALLOW, ESCALATE, BLOCK and
\* ERROR, the risk is the one of that decision alone ({0.0, LOW},
\* {0.5, MEDIUM}, {1.0, HIGH}, {1.0, CRITICAL}), the first reason code is
\* DQSN_OK_ALLOW, DQSN_ESCALATE_WARN, DQSN_DENY_BLOCK or a DQSN_ERROR_* code
\* accordingly, and decision ERROR, tier CRITICAL and a DQSN_ERROR_* first
\* reason code come together or not at all.
C29_RiskAndFirstCodeFollowDecision ==
    (response # Idle /\ response.kind = "return")
    => LET v == response.value IN
       /\ v.decision \in {"ALLOW", "ESCALATE", "BLOCK", "ERROR"}
       /\ v.risk = RiskOfDecision(v.decision)
       /\ Len(v.reason_codes) >= 1
       /\ v.reason_codes[1] \in FirstCodesOfDecision(v.decision)
       /\ (v.decision = "ERROR") = (v.risk.tier = "CRITICAL")
       /\ (v.decision = "ERROR") = (v.reason_codes[1] \in ErrorFamily)

\* A request with a signal of decision ERROR and risk score 1.0 was answered
\* BLOCK, with tier HIGH and DQSN_DENY_BLOCK first.
C29_Witness ==
    /\ Accepted
    /\ \E i \in 1..Len(Signals) :
          /\ Strip(Upper(Str(Signals[i].d["decision"]))) = "ERROR"
          /\ Signals[i].d["risk"].d["score"] = PyFloat(100)
    /\ response.value.decision = "BLOCK"
    /\ response.value.risk.tier = "HIGH"
    /\ response.value.reason_codes[1] = "DQSN_DENY_BLOCK"

----------------------------------------------------------------------------
(* C30 *)

\* C30: evaluate leaves its argument unchanged: after any call, returning or
\* raising, the request the caller passed is equal to what it was before the
\* call, and where it holds a signals list, that list has the same elements
\* in the same order.
C30_ArgumentUnchanged ==
    response # Idle
    => /\ argument = request
       /\ (IsDict(request) /\ IsList(Get(request, "signals", PyNone)))
          => /\ Len(argument.d["signals"].l) = Len(Signals)
             /\ \A i \in 1..Len(Signals) : argument.d["signals"].l[i] = Signals[i]

\* An accepted request listed two signals of one context_hash and listed its
\* signals in another order than evidence.signals has them: the call dropped
\* a signal and sorted the rest, and the caller's list still holds every
\* signal in the order it was passed in.
C30_Witness ==
    /\ Accepted
    /\ response.value.evidence.dedup.unique_signals < Len(Signals)
    /\ stable_sort(Signals) # Signals
    /\ Len(in_place_writes(request)) = 3
    /\ argument.d["signals"].l = Signals

====
